---------------------------- MODULE Spec2Model ----------------------------
(***************************************************************************)
(* A model of the blog translation tooling:                                *)
(*                                                                         *)
(*   - tools/blog-post-translator/translate_posts.py: translate_post, the  *)
(*     translate / save / verify / retry controller, with the functions    *)
(*     it calls (parse_front_matter, translate_front_matter,               *)
(*     update_url_for_language, save_translated_post, verify_translation); *)
(*   - tools/missing-translations-scanner/scan_missing_translations.py:    *)
(*     the coverage scanner and its filter chain.                          *)
(*                                                                         *)
(* Text is abstract: a string stands for a piece of text, with its length, *)
(* its lower-cased form and its possible translations given by tables.     *)
(* A URL is the sequence of its symbols, "/" or a slash-free segment.      *)
(***************************************************************************)
EXTENDS Integers, Sequences, FiniteSets, TLC

VARIABLES
    \* ---- translate_post (one task) ----
    pc,                      \* position in translate_post
    attempt,                 \* the loop variable of line 397
    max_retries,             \* the argument max_retries
    lang_code,               \* the task's target language
    fs,                      \* the post directory: file name -> content
    original_content,        \* read_post_file's result
    front_matter,            \* parsed header of the original
    content_body,            \* body of the original
    translated_front_matter, \* this attempt's translated header
    translated_content,      \* this attempt's translated body
    result,                  \* translate_post's return value
    calls,                   \* how often each collaborator was invoked
    hist,                    \* what the attempts did (observation only)
    \* ---- scan_missing_translations ----
    spc,                     \* position in the scan
    filters,                 \* the configured filter list
    blog_posts,              \* the post directories found
    idx,                     \* index of the next post to scan
    filter_counts,           \* filter name -> posts skipped
    missing_translations,    \* post -> missing languages
    skipped_by,              \* post -> name of the filter that skipped it
    expected_langs,          \* get_expected_languages(config)
    total_posts,             \* the scan's count of posts scanned
    scan_exit_code,          \* the exit status of the scanner process
    json_report,             \* the "posts" of the JSON report, once generated
    \* ---- update_url_for_language ----
    url,                     \* the current URL
    url_trace,               \* the language codes applied, and the results
    \* ---- translate_posts.main and process_translation_output ----
    mpc,                     \* position in main
    report,                  \* the 'posts' of the report file
    args,                    \* the command line: lang, post, limit, dry_run
    posts,                   \* the posts selected by --post and --limit
    post_idx,                \* index of the current post
    lang_idx,                \* index of the current language, 0 before the post's heading
    total_translated,        \* the counter of line 566
    total_failed,            \* the counter of line 567
    handed,                  \* the calls of translate_post, in order (observation only)
    shown,                   \* what the dry run listed (observation only)
    output,                  \* the lines main has printed
    exit_code,               \* the exit status of the driver process
    posts_dict,              \* extract_translated_posts' result
    ppc                      \* position in process_translation_output

retryVars == <<pc, attempt, max_retries, lang_code, fs, original_content,
               front_matter, content_body, translated_front_matter,
               translated_content, result, calls, hist>>
scanVars == <<spc, filters, blog_posts, idx, filter_counts,
              missing_translations, skipped_by, expected_langs, total_posts,
              scan_exit_code, json_report>>
urlVars == <<url, url_trace>>
batchVars == <<mpc, report, args, posts, post_idx, lang_idx, total_translated,
               total_failed, handed, shown, output, exit_code, posts_dict,
               ppc>>
vars == <<retryVars, scanVars, urlVars, batchVars>>

-----------------------------------------------------------------------------
(* Bounds of the model.                                                    *)

MaxRetriesBound == 3
MaxUrlLen == 3
MaxApply == 3
MaxPosts == 2

-----------------------------------------------------------------------------
(* Text.                                                                   *)

\* Python's None, and a key that a mapping does not hold.
None == "<None>"
Absent == "<absent>"

\* The pieces of text of the model: English originals, their translations,
\* a variant that differs in case only, and the empty string.
Originals == {"Title", "Summary", "Intro", "Usage", "/docs"}

Translated(t) ==
    CASE t = "Title" -> "Titel"
      [] t = "Summary" -> "Zusammenfassung"
      [] t = "Intro" -> "Einleitung"
      [] t = "Usage" -> "Verwendung"
      [] t = "/docs" -> "/dokumente"
      [] t = "Logo" -> "Signet"
      [] OTHER -> t

Recased(t) ==
    CASE t = "Title" -> "TITLE"
      [] t = "Summary" -> "SUMMARY"
      [] t = "Intro" -> "INTRO"
      [] t = "Usage" -> "USAGE"
      [] OTHER -> t

\* str(x).strip().lower()
Lower(t) ==
    CASE t \in {"Title", "TITLE"} -> "title"
      [] t \in {"Summary", "SUMMARY"} -> "summary"
      [] t \in {"Intro", "INTRO"} -> "intro"
      [] t \in {"Usage", "USAGE"} -> "usage"
      [] t = "Titel" -> "titel"
      [] t = "Zusammenfassung" -> "zusammenfassung"
      [] t = "Einleitung" -> "einleitung"
      [] t = "Verwendung" -> "verwendung"
      [] t = "Logo" -> "logo"
      [] t = "Signet" -> "signet"
      [] OTHER -> t

\* len(x)
TextLen(t) ==
    CASE t \in {"Title", "TITLE", "title", "Titel", "titel", "Intro", "INTRO",
                "intro", "Usage", "USAGE", "usage", "/docs"} -> 5
      [] t \in {"Logo", "logo"} -> 4
      [] t \in {"Signet", "signet"} -> 6
      [] t \in {"Summary", "SUMMARY", "summary"} -> 7
      [] t \in {"Einleitung", "einleitung", "Verwendung", "verwendung",
                "/dokumente"} -> 10
      [] t \in {"Zusammenfassung", "zusammenfassung"} -> 15
      [] OTHER -> 0

\* x.startswith('/')
StartsWithSlash(t) == t \in {"/docs", "/dokumente"}

\* Python truthiness of an optional string.
Truthy(t) == t \notin {None, Absent, ""}


-----------------------------------------------------------------------------
(* Documents.                                                              *)

\* The header fields that hold text.
TextFields == {"title", "seoTitle", "description", "summary"}

\* A URL value of a header: absent, a string (the sequence of its symbols),
\* or a YAML scalar that is not a string (url: 123).
NoUrl == [present |-> FALSE, str |-> FALSE, path |-> <<>>]
StrUrl(p) == [present |-> TRUE, str |-> TRUE, path |-> p]
IntUrl == [present |-> TRUE, str |-> FALSE, path |-> <<>>]

\* The cover value of a header: absent, or a mapping with its alt and
\* caption texts (Absent when the key is missing).
CoverFields == {"alt", "caption"}
NoCover == [present |-> FALSE, text |-> [f \in CoverFields |-> Absent]]
Cover(alt, caption) ==
    [present |-> TRUE,
     text |-> [f \in CoverFields |-> IF f = "alt" THEN alt ELSE caption]]

\* A parsed header: none is Python's None (no header, or a YAML failure).
NoneFM ==
    [none |-> TRUE, text |-> [f \in TextFields |-> Absent], url |-> NoUrl,
     cover |-> NoCover]
FM(title, seo, desc, summ, u) ==
    [none |-> FALSE,
     text |-> [f \in TextFields |->
                 CASE f = "title" -> title
                   [] f = "seoTitle" -> seo
                   [] f = "description" -> desc
                   [] f = "summary" -> summ],
     url |-> u,
     cover |-> NoCover]

\* "not front_matter": None or the empty mapping.
FmFalsy(fm) ==
    \/ fm.none
    \/ /\ \A f \in TextFields : fm.text[f] = Absent
       /\ ~fm.url.present
       /\ ~fm.cover.present

\* A body: its stripped length and the heading lines that
\* re.findall(r'^#{1,6}\s+(.+)$', body, re.MULTILINE) finds in it.
\* none is Python's None (translate_text failed).
Body(n, hs) == [none |-> FALSE, len |-> n, headers |-> hs]
NoneBody == [none |-> TRUE, len |-> 0, headers |-> <<>>]
BodyFalsy(b) == b.none \/ b.len = 0

\* A file: whether it exists, whether its text starts with '---', whether a
\* closing '\n---' follows, whether the block between them is valid YAML, the
\* header that block parses to and the text after it (the whole text when
\* there is no header block).
NoFile ==
    [exists |-> FALSE, starts |-> FALSE, closed |-> FALSE, yamlOk |-> FALSE,
     fm |-> NoneFM, body |-> Body(0, <<>>)]
RawFile(b) ==
    [exists |-> TRUE, starts |-> FALSE, closed |-> FALSE, yamlOk |-> FALSE,
     fm |-> NoneFM, body |-> b]
DocFile(fm, b) ==
    [exists |-> TRUE, starts |-> TRUE, closed |-> TRUE, yamlOk |-> TRUE,
     fm |-> fm, body |-> b]
BadYamlFile(b) ==
    [exists |-> TRUE, starts |-> TRUE, closed |-> TRUE, yamlOk |-> FALSE,
     fm |-> NoneFM, body |-> b]

KeyLen(f) ==
    CASE f = "title" -> 5
      [] f = "seoTitle" -> 8
      [] f = "description" -> 11
      [] f = "summary" -> 7

\* The length of one "key: value\n" line of the YAML block.
FieldLen(fm, f) ==
    IF fm.text[f] = Absent THEN 0 ELSE KeyLen(f) + 2 + TextLen(fm.text[f]) + 1

RECURSIVE PathLen(_)
PathLen(p) ==
    IF p = <<>> THEN 0
    ELSE (IF Head(p) = "/" THEN 1 ELSE 4) + PathLen(Tail(p))

UrlLineLen(u) ==
    IF ~u.present THEN 0 ELSE 3 + 2 + (IF u.str THEN PathLen(u.path) ELSE 3) + 1

\* "cover:\n" and one "  key: value\n" line for each key of the mapping.
CoverLen(c) ==
    IF ~c.present THEN 0
    ELSE 7 + (IF c.text["alt"] = Absent THEN 0 ELSE 2 + 3 + 2 + TextLen(c.text["alt"]) + 1)
           + (IF c.text["caption"] = Absent THEN 0
              ELSE 2 + 7 + 2 + TextLen(c.text["caption"]) + 1)

YamlLen(fm) ==
    IF fm.none THEN 0
    ELSE FieldLen(fm, "title") + FieldLen(fm, "seoTitle")
         + FieldLen(fm, "description") + FieldLen(fm, "summary")
         + UrlLineLen(fm.url) + CoverLen(fm.cover)

\* len(content.strip())
ContentLen(c) ==
    IF ~c.exists THEN 0
    ELSE IF c.starts /\ c.closed THEN 4 + YamlLen(c.fm) + 5 + c.body.len
    ELSE c.body.len

\* "not content" for an optional text: None or the empty string.
ContentFalsy(c) == ~c.exists \/ (~c.starts /\ c.body.len = 0)

\* translate_posts.parse_front_matter: (front_matter, content_body).
parse_front_matter(content) ==
    IF ~content.starts THEN [fm |-> NoneFM, body |-> content.body]
    ELSE IF ~content.closed THEN [fm |-> NoneFM, body |-> content.body]
    ELSE IF ~content.yamlOk THEN [fm |-> NoneFM, body |-> content.body]
    ELSE [fm |-> content.fm, body |-> content.body]

-----------------------------------------------------------------------------
(* update_url_for_language.                                                *)

\* url.lstrip('/')
RECURSIVE LStripSlash(_)
LStripSlash(u) ==
    IF u # <<>> /\ Head(u) = "/" THEN LStripSlash(Tail(u)) ELSE u

update_url_for_language(u, lang) ==
    IF lang = "en" THEN u
    ELSE <<"/", lang, "/">> \o LStripSlash(u)

-----------------------------------------------------------------------------
(* The post directory and verify_translation.                              *)

Langs == {"ar", "de"}
\* The files of the post directory, and the variants of another post.
Files ==
    {"index.md", "index.ar.md", "index.de.md",
     "../other/index.ar.md", "../other/index.de.md"}

\* Path(post_path) / f'index.{lang_code}.md'
OutFile(lang) == IF lang = "ar" THEN "index.ar.md" ELSE "index.de.md"

min_content_length == 100
min_body_length == 50

fields_to_check == {"title", "description", "summary"}

Min(a, b) == IF a < b THEN a ELSE b

\* Lines 267-277: some checked field, present in both headers, differs after
\* strip().lower(), is not empty and is not a pair of paths.
front_matter_translated(translated_fm, original_fm) ==
    \E field \in fields_to_check :
        /\ translated_fm.text[field] # Absent
        /\ original_fm.text[field] # Absent
        /\ Lower(translated_fm.text[field]) # Lower(original_fm.text[field])
        /\ TextLen(Lower(translated_fm.text[field])) > 0
        /\ ~(StartsWithSlash(Lower(translated_fm.text[field]))
             /\ StartsWithSlash(Lower(original_fm.text[field])))

\* Lines 281-298: one of the first min(len, len, 3) headings differs.
headers_translated(translated_headers, original_headers) ==
    /\ translated_headers # <<>>
    /\ original_headers # <<>>
    /\ \E i \in 1..Min(Min(Len(translated_headers), Len(original_headers)), 3) :
           Lower(translated_headers[i]) # Lower(original_headers[i])

\* VerifyDecision that accepts only when both the header and the headings
\* are detected as translated.
VerifyDecisionBoth(translated_fm, translated_body, original_fm, original_body) ==
    /\ front_matter_translated(translated_fm, original_fm)
    /\ headers_translated(translated_body.headers, original_body.headers)

\* VerifyDecision that accepts every structurally valid file.
VerifyDecisionStructureOnly(translated_fm, translated_body, original_fm, original_body) ==
    TRUE

\* VerifyDecision without the lenient rule: nothing detected as translated
\* is a rejection.
VerifyDecisionStrict(translated_fm, translated_body, original_fm, original_body) ==
    \/ front_matter_translated(translated_fm, original_fm)
    \/ headers_translated(translated_body.headers, original_body.headers)

\* Lines 300-317, once both documents are parsed.
VerifyDecision(translated_fm, translated_body, original_fm, original_body) ==
    LET ft == front_matter_translated(translated_fm, original_fm)
        ht == headers_translated(translated_body.headers, original_body.headers)
    IN  IF ft \/ ht THEN TRUE
        ELSE IF Len(original_body.headers) > 0 /\ ~ht THEN FALSE
        ELSE IF Len(original_body.headers) = 0 /\ ~ft THEN TRUE
        ELSE FALSE

\* verify_translation that compares with the original before the length
\* checks: a detected translation is accepted whatever the lengths.
verify_translation_compare_first(d, lang, original) ==
    LET output_file == d[OutFile(lang)]
        t == parse_front_matter(output_file)
        o == parse_front_matter(original)
    IN  IF ~output_file.exists THEN FALSE
        ELSE IF ~output_file.starts THEN FALSE
        ELSE IF FmFalsy(t.fm) THEN FALSE
        ELSE IF ~ContentFalsy(original) /\ ~FmFalsy(o.fm)
             THEN VerifyDecision(t.fm, t.body, o.fm, o.body)
        ELSE TRUE

\* verify_translation(post_path, lang_code, original_content) on the
\* directory d; original is the original document's content (NoFile or an
\* empty text when none is supplied).
verify_translation(d, lang, original) ==
    LET output_file == d[OutFile(lang)]
        t == parse_front_matter(output_file)
        o == parse_front_matter(original)
    IN  IF ~output_file.exists THEN FALSE
        ELSE IF ContentLen(output_file) < min_content_length THEN FALSE
        ELSE IF ~output_file.starts THEN FALSE
        ELSE IF FmFalsy(t.fm) THEN FALSE
        ELSE IF t.body.len < min_body_length THEN FALSE
        ELSE IF ~ContentFalsy(original) /\ ~FmFalsy(o.fm)
             THEN VerifyDecision(t.fm, t.body, o.fm, o.body)
        ELSE TRUE

\* Lines 309-313: the warning "Could not verify translation quality" is
\* printed exactly on the lenient accept.
verify_translation_warns(d, lang, original) ==
    LET t == parse_front_matter(d[OutFile(lang)])
        o == parse_front_matter(original)
    IN  /\ verify_translation(d, lang, original)
        /\ ~ContentFalsy(original)
        /\ ~FmFalsy(o.fm)
        /\ ~front_matter_translated(t.fm, o.fm)
        /\ ~headers_translated(t.body.headers, o.body.headers)

-----------------------------------------------------------------------------
(* The translation capability (translate_text) and translate_front_matter. *)

\* What the remote call can answer for a text: a failure (None), an empty
\* answer, the text unchanged, the text in another case, a translation.
Answers == {"fail", "empty", "same", "recase", "tr"}

translate_text(text, answer) ==
    CASE answer = "fail" -> None
      [] answer = "empty" -> ""
      [] answer = "same" -> text
      [] answer = "recase" -> Recased(text)
      [] answer = "tr" -> Translated(text)

fields_to_translate == {"title", "seoTitle", "description", "summary"}

\* The fields translate_front_matter sends to translation (line 175).
Sent(fm) == {f \in fields_to_translate : Truthy(fm.text[f])}

\* The cover texts translate_front_matter sends to translation (lines 184-200).
CoverSent(fm) ==
    IF fm.cover.present THEN {f \in CoverFields : Truthy(fm.cover.text[f])} ELSE {}

\* Every text one call of translate_front_matter sends to translation.
Asked(fm) == Sent(fm) \cup CoverSent(fm)

\* Lines 184-200: the cover mapping after the call; a text is replaced when
\* the answer is truthy.
translate_cover(fm, answers) ==
    [present |-> fm.cover.present,
     text |-> [f \in CoverFields |->
                 IF f \in CoverSent(fm)
                    /\ Truthy(translate_text(fm.cover.text[f], answers[f]))
                 THEN translate_text(fm.cover.text[f], answers[f])
                 ELSE fm.cover.text[f]]]

\* front_matter_after_call where the URL rewrite too reaches the argument.
front_matter_after_call_url(fm, answers) ==
    [fm EXCEPT !.cover = translate_cover(fm, answers),
               !.url = IF fm.url.present /\ fm.url.str
                       THEN StrUrl(update_url_for_language(fm.url.path, lang_code))
                       ELSE fm.url]

\* Line 169, translated = front_matter.copy(), is a shallow copy: the cover
\* mapping of the copy is the cover mapping of the argument, so the
\* assignments of lines 192 and 200 change the argument too. The argument
\* after the call:
front_matter_after_call(fm, answers) ==
    [fm EXCEPT !.cover = translate_cover(fm, answers)]

\* translate_front_matter, lines 169-209, given the answer of the translation
\* capability for each text sent.
translate_front_matter(fm, lang, answers) ==
    [none |-> FALSE,
     text |-> [f \in TextFields |->
                 IF f \in Sent(fm) /\ Truthy(translate_text(fm.text[f], answers[f]))
                 THEN translate_text(fm.text[f], answers[f])
                 ELSE fm.text[f]],
     url |-> IF fm.url.present /\ fm.url.str
             THEN StrUrl(update_url_for_language(fm.url.path, lang))
             ELSE fm.url,
     cover |-> translate_cover(fm, answers)]

\* url.lstrip raises AttributeError when the header's url is not a string.
UrlRaises(fm, lang) == fm.url.present /\ ~fm.url.str /\ lang # "en"

\* The body the remote call can answer for the original body b.
RECURSIVE MapTranslated(_)
MapTranslated(hs) ==
    IF hs = <<>> THEN <<>> ELSE <<Translated(Head(hs))>> \o MapTranslated(Tail(hs))

RECURSIVE MapRecased(_)
MapRecased(hs) ==
    IF hs = <<>> THEN <<>> ELSE <<Recased(Head(hs))>> \o MapRecased(Tail(hs))

BodyAnswers == {"fail", "empty", "same", "recase", "tr", "short", "noheads"}

translate_body(b, answer) ==
    CASE answer = "fail" -> NoneBody
      [] answer = "empty" -> Body(0, <<>>)
      [] answer = "same" -> b
      [] answer = "recase" -> Body(b.len, MapRecased(b.headers))
      [] answer = "tr" -> Body(b.len, MapTranslated(b.headers))
      [] answer = "short" -> Body(30, MapTranslated(b.headers))
      [] answer = "noheads" -> Body(b.len, <<>>)

\* save_translated_post, lines 341-349: the text written.
full_content(fm, content) == DocFile(fm, content)

-----------------------------------------------------------------------------
(* translate_post: initial states.                                         *)

PostUrl == <<"/", "post", "/">>

\* The canonical documents a task can meet.
OriginalFiles ==
    { NoFile,
      RawFile(Body(0, <<>>)),
      RawFile(Body(200, <<"Intro">>)),
      BadYamlFile(Body(200, <<"Intro">>)),
      DocFile(FM(Absent, Absent, Absent, Absent, NoUrl), Body(200, <<"Intro">>)),
      DocFile(FM("Title", Absent, Absent, Absent, StrUrl(PostUrl)),
              Body(200, <<"Intro", "Usage">>)),
      DocFile(FM("Title", Absent, Absent, "Summary", StrUrl(PostUrl)),
              Body(200, <<>>)),
      DocFile(FM("Title", Absent, Absent, Absent, IntUrl), Body(200, <<"Intro">>)),
      DocFile([FM(Absent, Absent, Absent, Absent, StrUrl(PostUrl))
                   EXCEPT !.cover = Cover("Logo", Absent)],
              Body(200, <<"Intro">>)),
      DocFile(FM("Title", Absent, Absent, Absent, NoUrl), Body(60, <<>>)) }

\* What can already lie at a variant's path: nothing, an earlier
\* translation, or a file that is no document.
VariantFiles ==
    { NoFile,
      DocFile(FM("Titel", Absent, Absent, Absent, StrUrl(<<"/", "de", "/", "post", "/">>)),
              Body(200, <<"Einleitung", "Verwendung">>)),
      RawFile(Body(20, <<>>)) }

NoCalls == [fm |-> 0, body |-> 0, save |-> 0, verify |-> 0, sleep |-> 0, unlink |-> 0]

\* savedAt, verifiedAt: the attempt of the last successful save and of the
\* last verification (0: none); written: what that save wrote; accepted: the
\* last verification's answer; start: the directory when the task began.
NoHist(d) ==
    [savedAt |-> 0, written |-> NoFile, verifiedAt |-> 0, accepted |-> FALSE,
     start |-> d, unlink |-> "none"]

InitRetry ==
    /\ pc = "Start"
    /\ attempt = 0
    /\ max_retries \in 0..MaxRetriesBound
    /\ lang_code \in Langs
    /\ \E o \in OriginalFiles, v \in VariantFiles, w \in {NoFile, RawFile(Body(20, <<>>))} :
           fs = [f \in Files |->
                   IF f = "index.md" THEN o
                   ELSE IF f = OutFile(lang_code) THEN v ELSE w]
    /\ original_content = NoFile
    /\ front_matter = NoneFM
    /\ content_body = NoneBody
    /\ translated_front_matter = NoneFM
    /\ translated_content = NoneBody
    /\ result = "pending"
    /\ calls = NoCalls
    /\ hist = NoHist(fs)

IdleRetry ==
    /\ pc = "Idle"
    /\ attempt = 0
    /\ max_retries = 0
    /\ lang_code = "ar"
    /\ fs = [f \in Files |-> NoFile]
    /\ original_content = NoFile
    /\ front_matter = NoneFM
    /\ content_body = NoneBody
    /\ translated_front_matter = NoneFM
    /\ translated_content = NoneBody
    /\ result = "pending"
    /\ calls = NoCalls
    /\ hist = NoHist([f \in Files |-> NoFile])

-----------------------------------------------------------------------------
(* translate_post: the steps.                                              *)

Bump(c, k) == [c EXCEPT ![k] = @ + 1]

\* read_post_file: the file's text, or None when it is missing or the read
\* fails.
read_post_file(d, readOk) ==
    IF d["index.md"].exists /\ readOk THEN d["index.md"] ELSE NoFile

\* The end of a failed attempt (lines 409-415, 420-426, 437-450, 453-459):
\* back to the loop after a delay while attempts remain, else return False.
RetryOrFail ==
    IF attempt < max_retries
    THEN pc' = "RetryDelay" /\ result' = result
    ELSE pc' = "Done" /\ result' = "False"


\* ReadPost without the check of line 392: an original without a header goes
\* on to the attempts.
ReadPostUnchecked ==
    /\ pc = "Start"
    /\ \E readOk \in BOOLEAN :
        LET content == read_post_file(fs, readOk)
            parsed == parse_front_matter(content)
        IN  IF ContentFalsy(content)
            THEN /\ pc' = "Done"
                 /\ result' = "False"
                 /\ UNCHANGED <<original_content, front_matter, content_body>>
            ELSE /\ pc' = "Loop"
                 /\ result' = result
                 /\ original_content' = content
                 /\ front_matter' = parsed.fm
                 /\ content_body' = parsed.body
    /\ UNCHANGED <<attempt, max_retries, lang_code, fs, translated_front_matter,
                   translated_content, calls, hist>>
    /\ UNCHANGED <<scanVars, urlVars, batchVars>>

\* Lines 385-394: read and parse the original once.
ReadPost ==
    /\ pc = "Start"
    /\ \E readOk \in BOOLEAN :
        LET content == read_post_file(fs, readOk)
            parsed == parse_front_matter(content)
        IN  IF ContentFalsy(content) \/ FmFalsy(parsed.fm)
            THEN /\ pc' = "Done"
                 /\ result' = "False"
                 /\ UNCHANGED <<original_content, front_matter, content_body>>
            ELSE /\ pc' = "Loop"
                 /\ result' = result
                 /\ original_content' = content
                 /\ front_matter' = parsed.fm
                 /\ content_body' = parsed.body
    /\ UNCHANGED <<attempt, max_retries, lang_code, fs, translated_front_matter,
                   translated_content, calls, hist>>
    /\ UNCHANGED <<scanVars, urlVars, batchVars>>


\* NextAttempt with the loop bound off by one: range(1, max_retries + 2).
NextAttemptOffByOne ==
    /\ pc = "Loop"
    /\ IF attempt <= max_retries
       THEN attempt' = attempt + 1 /\ pc' = "Translating" /\ result' = result
       ELSE attempt' = attempt /\ pc' = "Done" /\ result' = "False"
    /\ UNCHANGED <<max_retries, lang_code, fs, original_content, front_matter,
                   content_body, translated_front_matter, translated_content,
                   calls, hist>>
    /\ UNCHANGED <<scanVars, urlVars, batchVars>>

\* Line 397: the next value of the loop variable, or the end of the loop
\* (line 461).
NextAttempt ==
    /\ pc = "Loop"
    /\ IF attempt < max_retries
       THEN attempt' = attempt + 1 /\ pc' = "Translating" /\ result' = result
       ELSE attempt' = attempt /\ pc' = "Done" /\ result' = "False"
    /\ UNCHANGED <<max_retries, lang_code, fs, original_content, front_matter,
                   content_body, translated_front_matter, translated_content,
                   calls, hist>>
    /\ UNCHANGED <<scanVars, urlVars, batchVars>>

\* TranslateFrontMatter without the handler of lines 451-458: the exception of
\* the URL rewrite leaves translate_post, which returns no boolean.
TranslateFrontMatterPropagates ==
    /\ pc = "Translating"
    /\ calls' = Bump(calls, "fm")
    /\ \E answers \in [Asked(front_matter) -> Answers] :
        /\ front_matter' = front_matter_after_call(front_matter, answers)
        /\ IF UrlRaises(front_matter, lang_code)
           THEN /\ pc' = "Done"
                /\ result' = "raised"
                /\ UNCHANGED translated_front_matter
           ELSE /\ translated_front_matter' =
                       translate_front_matter(front_matter, lang_code, answers)
                /\ pc' = "TranslatingBody"
                /\ result' = result
    /\ UNCHANGED <<attempt, max_retries, lang_code, fs, original_content,
                   content_body, translated_content, hist>>
    /\ UNCHANGED <<scanVars, urlVars, batchVars>>

\* Line 400, and the handler of lines 452-459 when the URL rewrite raises.
TranslateFrontMatter ==
    /\ pc = "Translating"
    /\ calls' = Bump(calls, "fm")
    /\ \E answers \in [Asked(front_matter) -> Answers] :
        /\ front_matter' = front_matter_after_call(front_matter, answers)
        /\ IF UrlRaises(front_matter, lang_code)
           THEN /\ RetryOrFail
                /\ UNCHANGED translated_front_matter
           ELSE /\ translated_front_matter' =
                       translate_front_matter(front_matter, lang_code, answers)
                /\ pc' = "TranslatingBody"
                /\ result' = result
    /\ UNCHANGED <<attempt, max_retries, lang_code, fs, original_content,
                   content_body, translated_content, hist>>
    /\ UNCHANGED <<scanVars, urlVars, batchVars>>

\* Lines 403-415: translate the body; None or an empty answer ends the attempt.
TranslateBody ==
    /\ pc = "TranslatingBody"
    /\ calls' = Bump(calls, "body")
    /\ \E answer \in BodyAnswers :
        /\ translated_content' = translate_body(content_body, answer)
        /\ IF BodyFalsy(translated_content')
           THEN RetryOrFail
           ELSE pc' = "Saving" /\ result' = result
    /\ UNCHANGED <<attempt, max_retries, lang_code, fs, original_content,
                   front_matter, content_body, translated_front_matter, hist>>
    /\ UNCHANGED <<scanVars, urlVars, batchVars>>

\* save_translated_post, lines 351-357: the write succeeds, open() fails and
\* the directory is as before, or write() fails after open() truncated the
\* file.
save_translated_post(d, lang, fm, content, outcome) ==
    CASE outcome = "ok" -> [d EXCEPT ![OutFile(lang)] = full_content(fm, content)]
      [] outcome = "open_failed" -> d
      [] outcome = "write_failed" -> [d EXCEPT ![OutFile(lang)] = RawFile(Body(0, <<>>))]


\* Save with the result of save_translated_post ignored: the verification
\* follows a failed save too.
SaveIgnoringFailure ==
    /\ pc = "Saving"
    /\ calls' = Bump(calls, "save")
    /\ \E outcome \in {"ok", "open_failed", "write_failed"} :
        /\ fs' = save_translated_post(fs, lang_code, translated_front_matter,
                                      translated_content, outcome)
        /\ pc' = "Verifying"
        /\ result' = result
        /\ hist' = IF outcome = "ok"
                   THEN [hist EXCEPT !.savedAt = attempt,
                                     !.written = fs'[OutFile(lang_code)]]
                   ELSE hist
    /\ UNCHANGED <<attempt, max_retries, lang_code, original_content, front_matter,
                   content_body, translated_front_matter, translated_content>>
    /\ UNCHANGED <<scanVars, urlVars, batchVars>>

\* Save that, after a failed write, writes the same translation again as the
\* next attempt.
SaveAgainOnFailure ==
    /\ pc = "Saving"
    /\ calls' = Bump(calls, "save")
    /\ \E outcome \in {"ok", "open_failed", "write_failed"} :
        /\ fs' = save_translated_post(fs, lang_code, translated_front_matter,
                                      translated_content, outcome)
        /\ IF outcome = "ok"
           THEN /\ pc' = "Verifying"
                /\ result' = result
                /\ attempt' = attempt
                /\ hist' = [hist EXCEPT !.savedAt = attempt,
                                        !.written = fs'[OutFile(lang_code)]]
           ELSE /\ IF attempt < max_retries
                   THEN pc' = "Saving" /\ result' = result /\ attempt' = attempt + 1
                   ELSE pc' = "Done" /\ result' = "False" /\ attempt' = attempt
                /\ hist' = hist
    /\ UNCHANGED <<max_retries, lang_code, original_content, front_matter,
                   content_body, translated_front_matter, translated_content>>
    /\ UNCHANGED <<scanVars, urlVars, batchVars>>

\* Lines 418-426.
Save ==
    /\ pc = "Saving"
    /\ calls' = Bump(calls, "save")
    /\ \E outcome \in {"ok", "open_failed", "write_failed"} :
        /\ fs' = save_translated_post(fs, lang_code, translated_front_matter,
                                      translated_content, outcome)
        /\ IF outcome = "ok"
           THEN /\ pc' = "Verifying"
                /\ result' = result
                /\ hist' = [hist EXCEPT !.savedAt = attempt,
                                        !.written = fs'[OutFile(lang_code)]]
           ELSE /\ RetryOrFail
                /\ hist' = hist
    /\ UNCHANGED <<attempt, max_retries, lang_code, original_content, front_matter,
                   content_body, translated_front_matter, translated_content>>
    /\ UNCHANGED <<scanVars, urlVars, batchVars>>

\* Cleanup that unlinks every index.<lang>.md of the post directory.
CleanupVariants(d, lang, unlinkOk) ==
    IF d[OutFile(lang)].exists /\ unlinkOk
    THEN [f \in DOMAIN d |->
            IF f \in {"index.ar.md", "index.de.md"} THEN NoFile ELSE d[f]]
    ELSE d

\* Lines 440-445: unlink the output file if it exists; a failing unlink is
\* swallowed and leaves the file.
Cleanup(d, lang, unlinkOk) ==
    IF d[OutFile(lang)].exists /\ unlinkOk
    THEN [d EXCEPT ![OutFile(lang)] = NoFile]
    ELSE d

\* AfterRejection without the cleanup: the rejected file stays.
AfterRejectionKeeps(d, unlinkOk) == d

\* What a rejection does to the directory (lines 437-450): the cleanup while
\* attempts remain, nothing on the last attempt.
AfterRejection(d, unlinkOk) ==
    IF attempt < max_retries THEN Cleanup(d, lang_code, unlinkOk) ELSE d


\* A verify_translation that opens the output file for writing: the file is
\* left empty.
verify_translation_truncates(d) ==
    [d EXCEPT ![OutFile(lang_code)] = RawFile(Body(0, <<>>))]

\* What verify_translation does to the directory: it only reads (line 238).
verify_translation_effect(d) == d

\* Lines 429-450.
Verify ==
    /\ pc = "Verifying"
    /\ LET ok == verify_translation(fs, lang_code, original_content)
           d == verify_translation_effect(fs)
       IN  /\ IF ok
              THEN /\ pc' = "Done"
                   /\ result' = "True"
                   /\ fs' = d
                   /\ calls' = Bump(calls, "verify")
                   /\ hist' = [hist EXCEPT !.verifiedAt = attempt, !.accepted = ok,
                                           !.unlink = "none"]
              ELSE /\ RetryOrFail
                   /\ \E unlinkOk \in BOOLEAN :
                        /\ fs' = AfterRejection(d, unlinkOk)
                        /\ hist' = [hist EXCEPT
                               !.verifiedAt = attempt, !.accepted = ok,
                               !.unlink = IF attempt >= max_retries THEN "none"
                                          ELSE IF unlinkOk THEN "ok" ELSE "failed"]
                   /\ calls' = IF attempt < max_retries
                               THEN Bump(Bump(calls, "verify"), "unlink")
                               ELSE Bump(calls, "verify")
    /\ UNCHANGED <<attempt, max_retries, lang_code, original_content, front_matter,
                   content_body, translated_front_matter, translated_content>>
    /\ UNCHANGED <<scanVars, urlVars, batchVars>>

\* time.sleep before the next attempt (lines 411, 422, 446, 455).
RetryDelay ==
    /\ pc = "RetryDelay"
    /\ pc' = "Loop"
    /\ calls' = Bump(calls, "sleep")
    /\ UNCHANGED <<attempt, max_retries, lang_code, fs, original_content,
                   front_matter, content_body, translated_front_matter,
                   translated_content, result, hist>>
    /\ UNCHANGED <<scanVars, urlVars, batchVars>>

-----------------------------------------------------------------------------
(* The scanner: headers, filters, should_skip_post.                        *)

\* A publish date as the YAML parser hands it over: no key, an empty string,
\* a string in the format '%a, %d %b %Y %H:%M:%S %z' with its year, a string
\* in another format, or a value that is not a string (date: 2024-01-05 is
\* parsed to a date object).
NoYear == -1
DateMissing == [kind |-> "missing", year |-> NoYear]
DateEmpty == [kind |-> "empty", year |-> NoYear]
DateStr(y) == [kind |-> "str", year |-> y]
DateBadStr == [kind |-> "badstr", year |-> NoYear]
DateNonStr == [kind |-> "nonstr", year |-> NoYear]

\* The header scan_missing_translations.parse_front_matter returns: None, or
\* a mapping with its tags (tagsIsList: the value is a list) and its date.
\* url is the header's url key (a string unless said otherwise).
NoHeader ==
    [none |-> TRUE, tags |-> {}, tagsIsList |-> FALSE, date |-> DateMissing,
     url |-> NoUrl]
Header(tags, isList, date) ==
    [none |-> FALSE, tags |-> tags, tagsIsList |-> isList, date |-> date,
     url |-> StrUrl(<<"/", "post", "/">>)]

\* A PostFilter: name, enabled, and the configuration keys the checks read
\* (tag: None when not configured; min_year, max_year: NoYear when None).
PostFilter(name, enabled, tag, minYear, maxYear) ==
    [name |-> name, enabled |-> enabled, tag |-> tag,
     min_year |-> minYear, max_year |-> maxYear]

\* _check_archived: self.config.get('tag', 'zArchive') in tags.
check_archived(f, fm) ==
    LET archive_tag == IF f.tag = None THEN "zArchive" ELSE f.tag
    IN  IF fm.tagsIsList THEN (IF archive_tag \in fm.tags THEN "True" ELSE "False")
        ELSE "False"

\* datetime.strptime(date_str, fmt): the year, a ValueError for a string in
\* another format, a TypeError for a value that is not a string.
strptime(d) ==
    CASE d.kind = "str" -> [raised |-> "no", year |-> d.year]
      [] d.kind \in {"badstr", "empty"} -> [raised |-> "ValueError", year |-> NoYear]
      [] OTHER -> [raised |-> "TypeError", year |-> NoYear]

\* _check_date_range: "True", "False", or the exception that leaves it
\* (only ValueError and AttributeError are caught, line 169).
check_date_range(f, fm) ==
    IF fm.date.kind \in {"missing", "empty"} THEN "False"
    ELSE LET p == strptime(fm.date)
         IN  IF p.raised = "ValueError" THEN "False"
             ELSE IF p.raised = "TypeError" THEN "TypeError"
             ELSE IF f.min_year # NoYear /\ p.year < f.min_year THEN "True"
             ELSE IF f.max_year # NoYear /\ p.year > f.max_year THEN "True"
             ELSE "False"

\* _check_tag
check_tag(f, fm) ==
    IF f.tag = None THEN "False"
    ELSE IF fm.tagsIsList THEN (IF f.tag \in fm.tags THEN "True" ELSE "False")
    ELSE "False"

\* should_skip whose enabled filters skip a post without a header.
should_skip_without_header(f, fm) ==
    IF ~f.enabled THEN "False"
    ELSE IF fm.none THEN "True"
    ELSE IF f.name = "archived" THEN check_archived(f, fm)
    ELSE IF f.name = "date_range" THEN check_date_range(f, fm)
    ELSE IF f.name = "tag" THEN check_tag(f, fm)
    ELSE "False"

\* PostFilter.should_skip
should_skip(f, fm) ==
    IF ~f.enabled THEN "False"
    ELSE IF fm.none THEN "False"
    ELSE IF f.name = "archived" THEN check_archived(f, fm)
    ELSE IF f.name = "date_range" THEN check_date_range(f, fm)
    ELSE IF f.name = "tag" THEN check_tag(f, fm)
    ELSE "False"

\* should_skip_post, from filter i on: (should_skip, filter_name), whether an
\* exception left the function, and how many filters were evaluated.
RECURSIVE SkipFrom(_, _, _)
SkipFrom(fm, fl, i) ==
    IF i > Len(fl)
    THEN [skip |-> FALSE, name |-> None, raised |-> FALSE, evaluated |-> Len(fl)]
    ELSE LET r == should_skip(fl[i], fm)
         IN  IF r = "TypeError"
             THEN [skip |-> FALSE, name |-> None, raised |-> TRUE, evaluated |-> i]
             ELSE IF r = "True"
             THEN [skip |-> TRUE, name |-> fl[i].name, raised |-> FALSE, evaluated |-> i]
             ELSE SkipFrom(fm, fl, i + 1)

should_skip_post(post, fl) == SkipFrom(post.fm, fl, 1)

-----------------------------------------------------------------------------
(* The scanner: files and languages.                                       *)

\* A file name is the sequence of its dot-separated parts.
IndexMd == <<"index", "md">>
VariantName(lang) == <<"index", lang, "md">>

\* post_dir.glob('index.*.md')
GlobIndexMd(files) ==
    {n \in files : Len(n) >= 3 /\ n[1] = "index" /\ n[Len(n)] = "md"}


\* get_translation_files without the check of line 232: the second part of
\* every stem, however many parts it has.
get_translation_files_any_stem(files) ==
    {n[2] : n \in GlobIndexMd(files)}

\* get_translation_files: the second part of every stem with two parts.
get_translation_files(files) ==
    {n[2] : n \in {m \in GlobIndexMd(files) : Len(m) - 1 = 2}}

\* sorted(): the language codes of the model in sorted order.
SortedCodes == <<"ar", "de", "fr">>

\* get_expected_languages: the configured codes but 'en', sorted.
get_expected_languages(languages) ==
    SelectSeq(SortedCodes, LAMBDA c : c \in languages /\ c # "en")

\* Line 377
missing_langs(expected, found) ==
    SelectSeq(expected, LAMBDA lang : lang \notin found)

-----------------------------------------------------------------------------
(* scan_missing_translations.                                              *)

HeaderPool ==
    { NoHeader,
      Header({}, TRUE, DateStr(2025)),
      Header({"zArchive"}, TRUE, DateStr(2024)),
      [Header({"zArchive"}, TRUE, DateNonStr) EXCEPT !.url = NoUrl],
      [Header({"draft"}, TRUE, DateBadStr) EXCEPT !.url = IntUrl],
      Header({"zArchive"}, FALSE, DateStr(2026)) }

FilesPool ==
    { {IndexMd},
      {IndexMd, VariantName("ar"), <<"index", "de", "txt">>},
      {IndexMd, VariantName("ar"), VariantName("de"), <<"index", "fr", "bak", "md">>} }

PostPool == {[fm |-> h, files |-> fl] : h \in HeaderPool, fl \in FilesPool}

FilterPool ==
    { PostFilter("archived", TRUE, "zArchive", NoYear, NoYear),
      PostFilter("archived", FALSE, "zArchive", NoYear, NoYear),
      PostFilter("date_range", TRUE, None, 2025, 2025),
      PostFilter("tag", TRUE, "draft", NoYear, NoYear) }

MaxFilters == 2

\* The sequences over S of length at most n.
SeqsUpTo(S, n) == UNION {[1..k -> S] : k \in 0..n}

\* The lists of distinct filters.
FilterLists ==
    {fl \in SeqsUpTo(FilterPool, MaxFilters) :
        \A i, j \in 1..Len(fl) : i # j => fl[i] # fl[j]}

\* The 'languages' keys of config.yml.
LanguageConfigs == {{"en", "ar", "de"}, {"en", "fr", "ar"}}

EmptyMap == [x \in {} |-> 0]

\* The value of an exit status while the process is running.
NotExited == -1

-----------------------------------------------------------------------------
(* generate_json_report.                                                   *)

\* What the url key of the header of index.<lang>.md holds, for the variant
\* files of the model's posts: a path, no url key, a number.
VariantUrl(lang) ==
    CASE lang = "ar" -> StrUrl(<<"/", "ar", "/", "post", "/">>)
      [] lang = "de" -> NoUrl
      [] OTHER -> IntUrl

\* extract_front_matter_url that reads index.md when the variant file is
\* missing.
extract_front_matter_url_fallback(post, lang) ==
    IF lang \notin {None, "en"} /\ VariantName(lang) \in post.files
    THEN VariantUrl(lang)
    ELSE post.fm.url

\* extract_front_matter_url, lines 251-280: the url key of index.<lang>.md,
\* or of index.md for None and 'en'; None (NoUrl) when the file is missing
\* or has no header.
extract_front_matter_url(post, lang) ==
    IF lang \notin {None, "en"}
    THEN IF VariantName(lang) \in post.files THEN VariantUrl(lang)
         ELSE NoUrl
    ELSE IF post.fm.none THEN NoUrl ELSE post.fm.url

\* extract_url_from_post, lines 295-305: None (null), the full URL, or the
\* TypeError of line 305 (base + url_path with a url that is not a string).
extract_url_from_post(post, lang) ==
    LET url_path == extract_front_matter_url(post, lang)
    IN  IF ~url_path.present THEN [null |-> TRUE, raised |-> FALSE, full |-> <<>>]
        ELSE IF ~url_path.str THEN [null |-> TRUE, raised |-> TRUE, full |-> <<>>]
        ELSE [null |-> FALSE, raised |-> FALSE,
              full |-> <<"https://blog">> \o url_path.path]

\* Lines 438-458: the entry of a post with missing languages.
ReportEntry(post, missing, expected) ==
    LET url_en == extract_url_from_post(post, None)
        langs == {expected[k] : k \in 1..Len(expected)}
        keys == (IF url_en.null THEN {} ELSE {"en"})
                \cup {lang \in langs : ~extract_url_from_post(post, lang).null}
    IN  [url |-> url_en,
         urls |-> [lang \in keys |->
                     IF lang \in langs
                     THEN extract_url_from_post(post, lang).full
                     ELSE url_en.full],
         missing_languages |-> missing,
         missing_count |-> Len(missing),
         total_expected |-> Len(expected)]

\* The report: none generated, the exception of line 305 left
\* generate_json_report, or the entries by post.
NoReport == [state |-> "none", posts |-> EmptyMap]

\* generate_json_report, lines 421-458, for the posts found.
generate_json_report(mt, expected, found) ==
    IF \E i \in DOMAIN mt :
           \/ extract_url_from_post(found[i], None).raised
           \/ \E k \in 1..Len(expected) :
                  extract_url_from_post(found[i], expected[k]).raised
    THEN [state |-> "raised", posts |-> EmptyMap]
    ELSE [state |-> "written",
          posts |-> [i \in DOMAIN mt |-> ReportEntry(found[i], mt[i], expected)]]

InitScan ==
    /\ spc = "Loading"
    /\ scan_exit_code = NotExited
    /\ json_report = NoReport
    /\ filters \in FilterLists
    /\ blog_posts \in SeqsUpTo(PostPool, MaxPosts)
    /\ \E languages \in LanguageConfigs :
           expected_langs = get_expected_languages(languages)
    /\ idx = 1
    /\ filter_counts = EmptyMap
    /\ missing_translations = EmptyMap
    /\ skipped_by = EmptyMap
    /\ total_posts = 0

IdleScan ==
    /\ spc = "Idle"
    /\ scan_exit_code = NotExited
    /\ json_report = NoReport
    /\ filters = <<>>
    /\ blog_posts = <<>>
    /\ expected_langs = <<>>
    /\ idx = 1
    /\ filter_counts = EmptyMap
    /\ missing_translations = EmptyMap
    /\ skipped_by = EmptyMap
    /\ total_posts = 0


\* CountSkip that stores 1 instead of adding 1.
CountSkipOnce(fc, name) ==
    IF name \in DOMAIN fc THEN [fc EXCEPT ![name] = 1] ELSE fc @@ (name :> 1)

\* filter_counts[filter_name] += 1 on a defaultdict(int), line 371.
CountSkip(fc, name) ==
    IF name \in DOMAIN fc THEN [fc EXCEPT ![name] = @ + 1] ELSE fc @@ (name :> 1)

\* sum(filter_counts.values()), line 394.
RECURSIVE SumOver(_, _)
SumOver(fc, names) ==
    IF names = {} THEN 0
    ELSE LET n == CHOOSE x \in names : TRUE
         IN  fc[n] + SumOver(fc, names \ {n})

filtered_count(fc) == SumOver(fc, DOMAIN fc)

\* ScannedTotal that counts only the posts whose header was parsed.
ScannedTotalParsed(found, fc) ==
    Cardinality({i \in 1..Len(found) : ~found[i].fm.none}) - filtered_count(fc)

\* The count the scan returns, line 406.
ScannedTotal(found, fc) == Len(found) - filtered_count(fc)

\* Lines 379-382: a post gets an entry only when a language is missing.
RecordMissing(mt, post, missing) ==
    IF missing # <<>> THEN mt @@ (post :> missing) ELSE mt

\* Lines 336-353: load_config ends the process with status 1 when config.yml
\* is missing or is not YAML, find_blog_post_directories when the content
\* directory is missing; otherwise the loop over the posts begins.
LoadInputs ==
    /\ spc = "Loading"
    /\ \E outcome \in {"ok", "config_not_found", "config_not_yaml",
                        "content_not_found"} :
           IF outcome = "ok"
           THEN /\ spc' = "Scanning"
                /\ UNCHANGED scan_exit_code
           ELSE /\ spc' = "Aborted"
                /\ scan_exit_code' = 1
    /\ UNCHANGED <<filters, blog_posts, expected_langs, idx, filter_counts,
                   missing_translations, skipped_by, total_posts, json_report>>
    /\ UNCHANGED <<retryVars, urlVars, batchVars>>

\* Lines 365-386: one turn of the loop over the posts found. An exception
\* that leaves should_skip_post ends the scan.
ScanPost ==
    /\ spc = "Scanning"
    /\ idx <= Len(blog_posts)
    /\ LET post == blog_posts[idx]
           r == should_skip_post(post, filters)
       IN  IF r.raised
           THEN /\ spc' = "Crashed"
                /\ UNCHANGED <<idx, filter_counts, missing_translations, skipped_by>>
           ELSE IF r.skip
           THEN /\ filter_counts' = CountSkip(filter_counts, r.name)
                /\ skipped_by' = skipped_by @@ (idx :> r.name)
                /\ idx' = idx + 1
                /\ UNCHANGED <<spc, missing_translations>>
           ELSE /\ missing_translations' =
                       RecordMissing(missing_translations, idx,
                           missing_langs(expected_langs, get_translation_files(post.files)))
                /\ idx' = idx + 1
                /\ UNCHANGED <<spc, filter_counts, skipped_by>>
    /\ UNCHANGED <<filters, blog_posts, expected_langs, total_posts,
                   scan_exit_code, json_report>>
    /\ UNCHANGED <<retryVars, urlVars, batchVars>>

\* Lines 394-406: the loop is over; the counts are returned.
FinishScan ==
    /\ spc = "Scanning"
    /\ idx > Len(blog_posts)
    /\ total_posts' = ScannedTotal(blog_posts, filter_counts)
    /\ spc' = "Done"
    /\ UNCHANGED <<filters, blog_posts, expected_langs, idx, filter_counts,
                   missing_translations, skipped_by, scan_exit_code, json_report>>
    /\ UNCHANGED <<retryVars, urlVars, batchVars>>

\* ScanExit with the two statuses of lines 661 and 663 exchanged.
ScanExitSwapped ==
    /\ spc \in {"Done", "Crashed"}
    /\ scan_exit_code = NotExited
    /\ \E want_json \in BOOLEAN :
        /\ json_report' =
               IF spc = "Done" /\ want_json
               THEN generate_json_report(missing_translations, expected_langs,
                                         blog_posts)
               ELSE NoReport
        /\ scan_exit_code' =
               IF spc = "Crashed" \/ json_report'.state = "raised" THEN 1
               ELSE IF DOMAIN missing_translations # {} THEN 0 ELSE 1
    /\ UNCHANGED <<spc, filters, blog_posts, expected_langs, idx, filter_counts,
                   missing_translations, skipped_by, total_posts>>
    /\ UNCHANGED <<retryVars, urlVars, batchVars>>

\* main, lines 641-663: with --output the JSON report is generated and
\* saved; the process ends with status 1 when the scan returned entries and
\* with 0 otherwise. An exception that left the scan or the report is caught
\* nowhere: the interpreter ends the process with status 1.
ScanExit ==
    /\ spc \in {"Done", "Crashed"}
    /\ scan_exit_code = NotExited
    /\ \E want_json \in BOOLEAN :
        /\ json_report' =
               IF spc = "Done" /\ want_json
               THEN generate_json_report(missing_translations, expected_langs,
                                         blog_posts)
               ELSE NoReport
        /\ scan_exit_code' =
               IF spc = "Crashed" \/ json_report'.state = "raised" THEN 1
               ELSE IF DOMAIN missing_translations # {} THEN 1 ELSE 0
    /\ UNCHANGED <<spc, filters, blog_posts, expected_langs, idx, filter_counts,
                   missing_translations, skipped_by, total_posts>>
    /\ UNCHANGED <<retryVars, urlVars, batchVars>>

-----------------------------------------------------------------------------
(* update_url_for_language, applied again and again.                       *)

UrlSymbols == {"/", "post", "ar"}
UrlLangs == {"en", "ar", "de"}

InitUrl ==
    /\ url \in SeqsUpTo(UrlSymbols, MaxUrlLen)
    /\ url_trace = <<>>

IdleUrl ==
    /\ url = <<>>
    /\ url_trace = <<>>

\* One call: the URL becomes the result; the trace keeps the argument, the
\* code and the result.
ApplyUrl ==
    /\ Len(url_trace) < MaxApply
    /\ \E lang \in UrlLangs :
        /\ url' = update_url_for_language(url, lang)
        /\ url_trace' = Append(url_trace, [arg |-> url, lang |-> lang, res |-> url'])
    /\ UNCHANGED <<retryVars, scanVars, batchVars>>

-----------------------------------------------------------------------------
(* translate_posts.main: the batch driver. A path is the sequence of its   *)
(* characters. The driver is modelled without --verbose.                   *)

MaxReportPosts == 2
MaxLimit == 2
MaxLogLines == 3

\* The paths of the report, and the url the report holds for each (None for
\* a JSON null).
PathA == <<"a">>
PathAB == <<"a", "b">>
ReportPaths == {PathA, PathAB}
ReportUrl(path) == IF path = PathA THEN "/a/" ELSE None

\* The entries of a report: generate_json_report writes an entry only for a
\* post with a missing language, in expected (sorted) order.
ReportPosts ==
    {[path |-> p, missing_languages |-> m, url |-> ReportUrl(p)] :
        p \in ReportPaths, m \in {<<"ar">>, <<"ar", "de">>}}

\* The reports: the paths are the keys of a dictionary, so they differ.
Reports ==
    {r \in SeqsUpTo(ReportPosts, MaxReportPosts) :
        \A i, j \in 1..Len(r) : i # j => r[i].path # r[j].path}

\* The command lines. --post absent and --post '' are both the empty
\* sequence (both falsy at line 537); --limit absent and --limit 0 are both
\* 0 (both falsy at line 545); --lang absent is None; --retries is 3 when
\* absent.
PostArgs == {<<>>, <<"a">>, <<"b">>, <<"c">>}
LangArgs == {None, "ar", "de"}
RetriesArgs == {0, 1, 3}
ArgSets ==
    [lang : LangArgs, post : PostArgs, limit : 0..MaxLimit, dry_run : BOOLEAN,
     retries : RetriesArgs]

\* args.post in path, for strings: sub occurs in s at some offset.
IsSubstring(sub, s) ==
    \E k \in 0..(Len(s) - Len(sub)) : SubSeq(s, k + 1, k + Len(sub)) = sub

\* lang in post['missing_languages'].
InList(x, l) == \E k \in 1..Len(l) : l[k] = x

\* Lines 537-538: the posts whose path contains args.post.
FilterByPost(ps, a) ==
    IF a.post # <<>> THEN SelectSeq(ps, LAMBDA p : IsSubstring(a.post, p.path)) ELSE ps

\* Lines 545-546: posts[:args.limit].
LimitPosts(ps, a) ==
    IF a.limit # 0 THEN SubSeq(ps, 1, Min(a.limit, Len(ps))) ELSE ps

\* A line of output, by what extract_translated_posts looks for in it: the
\* path after 'Processing:', the language after 'Translating to', whether
\* the line holds the mark of success, and the count after 'Total
\* translations completed:' (NotExited when the line holds none).
Line(kind, path, lang, check, count) ==
    [kind |-> kind, path |-> path, lang |-> lang, check |-> check, count |-> count]
Plain == Line("plain", <<>>, None, FALSE, NotExited)
ProcessingLine(path) == Line("processing", path, None, FALSE, NotExited)
TranslatingLine(lang, check) == Line("translating", <<>>, lang, check, NotExited)
MarkLine(check) == Line("mark", <<>>, None, check, NotExited)
CompletedLine(n) == Line("completed", <<>>, None, FALSE, n)

\* k plain lines.
PlainLines(k) == [i \in 1..k |-> Plain]

\* What one call of translate_post gives main: its result and the number of
\* lines it prints. With --retries 0 the loop of line 397 is empty: the call
\* fails, without a line (line 461) or after the lines of an unusable source
\* (52 or 59; 393, after 85 for a YAML error). Otherwise a failed call has
\* printed at least one line (52, 59, 393, or 414, 425, 449, 458 after the
\* lines of the attempts before), and a call succeeds without a line or
\* after lines (133 for each header field whose translation raised, 312,
\* and 356, 410, 421, 438, 454 for the attempts before).
TaskRuns(a) ==
    {run \in [success : BOOLEAN, lines : 0..MaxLogLines] :
        IF a.retries = 0 THEN ~run.success /\ run.lines <= 2
        ELSE run.success \/ run.lines >= 1}

\* Lines 585-593: 'Translating to <lang>... ' ends with a space and no line
\* break, so the first line translate_post prints continues it, and the mark
\* of line 590 or 593 ends that line when translate_post printed nothing.
TaskLines(lang, run) ==
    IF run.lines = 0
    THEN <<TranslatingLine(lang, run.success)>>
    ELSE <<TranslatingLine(lang, FALSE)>> \o PlainLines(run.lines - 1)
             \o <<MarkLine(run.success)>>

\* Lines 571-579: the languages of the loop of line 584 for a post; the
\* empty sequence when line 578 skips the post.
TaskLangs(post, a) ==
    IF a.lang # None
    THEN IF InList(a.lang, post.missing_languages) THEN <<a.lang>> ELSE <<>>
    ELSE post.missing_languages

\* Line 553: the languages the dry run lists for a post.
langs_to_translate(post, a) ==
    IF a.lang # None /\ InList(a.lang, post.missing_languages)
    THEN <<a.lang>> ELSE post.missing_languages

NoPostsDict == [x \in {} |-> [languages |-> <<>>, url |-> ""]]

InitBatch ==
    /\ mpc = "Start"
    /\ report \in Reports
    /\ args \in ArgSets
    /\ posts = <<>>
    /\ post_idx = 1
    /\ lang_idx = 0
    /\ total_translated = 0
    /\ total_failed = 0
    /\ handed = <<>>
    /\ shown = <<>>
    /\ output = <<>>
    /\ exit_code = NotExited
    /\ posts_dict = NoPostsDict
    /\ ppc = "Waiting"

IdleBatch ==
    /\ mpc = "Idle"
    /\ report = <<>>
    /\ args = [lang |-> None, post |-> <<>>, limit |-> 0, dry_run |-> FALSE,
               retries |-> 3]
    /\ posts = <<>>
    /\ post_idx = 1
    /\ lang_idx = 0
    /\ total_translated = 0
    /\ total_failed = 0
    /\ handed = <<>>
    /\ shown = <<>>
    /\ output = <<>>
    /\ exit_code = NotExited
    /\ posts_dict = NoPostsDict
    /\ ppc = "Waiting"

\* The positions of main after which the process has ended.
Ended == {"ReportError", "NoPosts", "NoMatch", "DryRunDone", "ClientError", "Finished"}

\* Lines 526-547: load_translation_report ends the process with status 1
\* when the report is missing or is not JSON; an empty report ends it with
\* 0, a --post that matches no path with 1; otherwise the posts are selected.
LoadReport ==
    /\ mpc = "Start"
    /\ \E load \in {"ok", "not_found", "not_json"} :
           IF load # "ok"
           THEN /\ mpc' = "ReportError"
                /\ exit_code' = 1
                /\ output' = output \o PlainLines(1)
                /\ UNCHANGED posts
           ELSE IF report = <<>>
           THEN /\ mpc' = "NoPosts"
                /\ exit_code' = 0
                /\ output' = output \o PlainLines(1)
                /\ UNCHANGED posts
           ELSE IF FilterByPost(report, args) = <<>>
           THEN /\ mpc' = "NoMatch"
                /\ exit_code' = 1
                /\ output' = output \o PlainLines(2)
                /\ UNCHANGED posts
           ELSE /\ mpc' = "Selected"
                /\ posts' = LimitPosts(FilterByPost(report, args), args)
                /\ output' = output
                       \o PlainLines(1 + (IF args.post # <<>> THEN 1 ELSE 0)
                                       + (IF args.limit # 0 THEN 1 ELSE 0))
                /\ UNCHANGED exit_code
    /\ UNCHANGED <<report, args, post_idx, lang_idx, total_translated,
                   total_failed, handed, shown, posts_dict, ppc>>
    /\ UNCHANGED <<retryVars, scanVars, urlVars>>

\* Lines 549-555: the dry run lists, for each selected post, its path and
\* langs_to_translate, and ends the process with status 0.
DryRun ==
    /\ mpc = "Selected"
    /\ args.dry_run
    /\ shown' = [i \in 1..Len(posts) |->
                    [path |-> posts[i].path,
                     langs |-> langs_to_translate(posts[i], args)]]
    /\ output' = output \o PlainLines(2 + 3 * Len(posts))
    /\ exit_code' = 0
    /\ mpc' = "DryRunDone"
    /\ UNCHANGED <<report, args, posts, post_idx, lang_idx, total_translated,
                   total_failed, handed, posts_dict, ppc>>
    /\ UNCHANGED <<retryVars, scanVars, urlVars>>

\* Lines 557-567: create_client raises SystemExit when the API key is not
\* set, and main ends the process with status 1; otherwise the loop begins.
CreateClient ==
    /\ mpc = "Selected"
    /\ ~args.dry_run
    /\ \E created \in BOOLEAN :
           IF created
           THEN /\ mpc' = "Loop"
                /\ total_translated' = 0
                /\ total_failed' = 0
                /\ UNCHANGED <<output, exit_code>>
           ELSE /\ mpc' = "ClientError"
                /\ output' = output \o PlainLines(1)
                /\ exit_code' = 1
                /\ UNCHANGED <<total_translated, total_failed>>
    /\ UNCHANGED <<report, args, posts, post_idx, lang_idx, handed, shown,
                   posts_dict, ppc>>
    /\ UNCHANGED <<retryVars, scanVars, urlVars>>

\* Lines 569-582: the next post. With --lang, a post that does not miss
\* that language is passed over; otherwise a blank line, the 'Processing:'
\* line and the 'Missing languages:' line are printed.
NextPost ==
    /\ mpc = "Loop"
    /\ post_idx <= Len(posts)
    /\ lang_idx = 0
    /\ LET post == posts[post_idx]
       IN  IF args.lang # None /\ ~InList(args.lang, post.missing_languages)
           THEN /\ post_idx' = post_idx + 1
                /\ UNCHANGED <<lang_idx, output>>
           ELSE /\ output' = output \o <<Plain, ProcessingLine(post.path), Plain>>
                /\ IF TaskLangs(post, args) = <<>>
                   THEN post_idx' = post_idx + 1 /\ UNCHANGED lang_idx
                   ELSE lang_idx' = 1 /\ UNCHANGED post_idx
    /\ UNCHANGED <<mpc, report, args, posts, total_translated, total_failed,
                   handed, shown, exit_code, posts_dict, ppc>>
    /\ UNCHANGED <<retryVars, scanVars, urlVars>>

\* Lines 588-594: the mark and the counter for a result.
CountResult(success) ==
    /\ total_translated' = total_translated + (IF success THEN 1 ELSE 0)
    /\ total_failed' = total_failed + (IF success THEN 0 ELSE 1)

\* TranslateTask that leaves the loop over the posts at the first failure.
TranslateTaskStopOnFailure ==
    /\ mpc = "Loop"
    /\ post_idx <= Len(posts)
    /\ lang_idx >= 1
    /\ LET post == posts[post_idx]
           langs == TaskLangs(post, args)
       IN  \E run \in TaskRuns(args) :
            /\ handed' = Append(handed, [path |-> post.path, lang |-> langs[lang_idx],
                                         success |-> run.success])
            /\ output' = output \o TaskLines(langs[lang_idx], run)
            /\ CountResult(run.success)
            /\ IF ~run.success
               THEN post_idx' = Len(posts) + 1 /\ lang_idx' = 0
               ELSE IF lang_idx < Len(langs)
               THEN lang_idx' = lang_idx + 1 /\ UNCHANGED post_idx
               ELSE post_idx' = post_idx + 1 /\ lang_idx' = 0
    /\ UNCHANGED <<mpc, report, args, posts, shown, exit_code, posts_dict, ppc>>
    /\ UNCHANGED <<retryVars, scanVars, urlVars>>

\* Lines 584-594: one turn of the loop over the languages: the task is
\* handed to translate_post, which returns after its last attempt; the mark
\* is printed and the result counted, whatever it is.
TranslateTask ==
    /\ mpc = "Loop"
    /\ post_idx <= Len(posts)
    /\ lang_idx >= 1
    /\ LET post == posts[post_idx]
           langs == TaskLangs(post, args)
       IN  \E run \in TaskRuns(args) :
            /\ handed' = Append(handed, [path |-> post.path, lang |-> langs[lang_idx],
                                         success |-> run.success])
            /\ output' = output \o TaskLines(langs[lang_idx], run)
            /\ CountResult(run.success)
            /\ IF lang_idx < Len(langs)
               THEN lang_idx' = lang_idx + 1 /\ UNCHANGED post_idx
               ELSE post_idx' = post_idx + 1 /\ lang_idx' = 0
    /\ UNCHANGED <<mpc, report, args, posts, shown, exit_code, posts_dict, ppc>>
    /\ UNCHANGED <<retryVars, scanVars, urlVars>>

\* Summary that ends the process with status 1 when a task has failed.
SummaryFailing ==
    /\ mpc = "Loop"
    /\ post_idx > Len(posts)
    /\ output' = output \o PlainLines(4) \o <<CompletedLine(total_translated)>>
                        \o PlainLines(2)
    /\ exit_code' = IF total_failed > 0 THEN 1 ELSE 0
    /\ mpc' = "Finished"
    /\ UNCHANGED <<report, args, posts, post_idx, lang_idx, total_translated,
                   total_failed, handed, shown, posts_dict, ppc>>
    /\ UNCHANGED <<retryVars, scanVars, urlVars>>

\* Summary that ends with status 1 when no task succeeded.
SummaryNoneTranslated ==
    /\ mpc = "Loop"
    /\ post_idx > Len(posts)
    /\ output' = output \o PlainLines(4) \o <<CompletedLine(total_translated)>>
                        \o PlainLines(2)
    /\ exit_code' = (IF total_translated = 0 THEN 1 ELSE 0)
    /\ mpc' = "Finished"
    /\ UNCHANGED <<report, args, posts, post_idx, lang_idx, total_translated,
                   total_failed, handed, shown, posts_dict, ppc>>
    /\ UNCHANGED <<retryVars, scanVars, urlVars>>

\* Lines 596-602: the summary; main returns and the process ends with 0.
Summary ==
    /\ mpc = "Loop"
    /\ post_idx > Len(posts)
    /\ output' = output \o PlainLines(4) \o <<CompletedLine(total_translated)>>
                        \o PlainLines(2)
    /\ exit_code' = 0
    /\ mpc' = "Finished"
    /\ UNCHANGED <<report, args, posts, post_idx, lang_idx, total_translated,
                   total_failed, handed, shown, posts_dict, ppc>>
    /\ UNCHANGED <<retryVars, scanVars, urlVars>>

-----------------------------------------------------------------------------
(* process_translation_output.extract_translated_posts, applied to what    *)
(* main printed. The language codes are plain words, which the pattern of  *)
(* line 86 returns whole.                                                  *)

\* Lines 66-71: the count of the first 'Total translations completed:' line
\* is 0.
SummaryShowsZero(lines) ==
    /\ \E k \in 1..Len(lines) : lines[k].kind = "completed"
    /\ LET first == CHOOSE k \in 1..Len(lines) :
                        /\ lines[k].kind = "completed"
                        /\ \A j \in 1..(k - 1) : lines[j].kind # "completed"
       IN  lines[first].count = 0

\* Lines 91-93: the mark of success is in lines[i:i+3], counted from 0.
MarkWithin(lines, i) ==
    \E k \in i..Min(i + 2, Len(lines)) : lines[k].check

\* Lines 74-100: the loop over the lines from line i on, with the post of
\* the last 'Processing:' line and the pairs found so far.
RECURSIVE CollectTranslated(_, _, _, _)
CollectTranslated(lines, i, current_post, found) ==
    IF i > Len(lines) THEN found
    ELSE LET line == lines[i]
             item == [path |-> current_post, language |-> line.lang]
         IN  IF line.kind = "processing"
             THEN CollectTranslated(lines, i + 1, line.path, found)
             ELSE IF line.kind = "translating" /\ current_post # <<>>
                     /\ MarkWithin(lines, i) /\ ~InList(item, found)
             THEN CollectTranslated(lines, i + 1, current_post, Append(found, item))
             ELSE CollectTranslated(lines, i + 1, current_post, found)

\* load_scan_report, lines 36-43: the posts of the scan report by path.
load_scan_report(scan_posts) ==
    [p \in {scan_posts[k].path : k \in 1..Len(scan_posts)} \ {<<>>} |->
        LET last == CHOOSE k \in 1..Len(scan_posts) :
                        /\ scan_posts[k].path = p
                        /\ \A j \in (k + 1)..Len(scan_posts) : scan_posts[j].path # p
        IN  scan_posts[last]]

\* Lines 108-120: the pairs grouped by path, each path with the url the
\* scan report holds for it ('' when it holds none).
RECURSIVE GroupByPost(_, _, _, _)
GroupByPost(found, k, scan_report, acc) ==
    IF k > Len(found) THEN acc
    ELSE LET item == found[k]
             fresh == [languages |-> <<>>,
                       url |-> IF item.path \in DOMAIN scan_report
                               THEN scan_report[item.path].url ELSE ""]
             known == IF item.path \in DOMAIN acc THEN acc
                      ELSE acc @@ (item.path :> fresh)
         IN  GroupByPost(found, k + 1, scan_report,
                 [known EXCEPT ![item.path].languages = Append(@, item.language)])

\* Lines 57-122. readable: the output file could be opened.
extract_translated_posts(lines, readable, scan_report) ==
    IF ~readable THEN NoPostsDict
    ELSE IF SummaryShowsZero(lines) THEN NoPostsDict
    ELSE GroupByPost(CollectTranslated(lines, 1, <<>>, <<>>), 1, scan_report,
                     NoPostsDict)

\* process_translation_output.main, line 156, run on the output of a driver
\* process that has ended, with or without --scan-report.
ProcessOutput ==
    /\ mpc \in Ended
    /\ ppc = "Waiting"
    /\ \E readable \in BOOLEAN, with_report \in BOOLEAN :
        /\ posts_dict' = extract_translated_posts(output, readable,
                              IF with_report THEN load_scan_report(report)
                              ELSE NoPostsDict)
        /\ ppc' = IF readable THEN "Done" ELSE "NoOutput"
    /\ UNCHANGED <<mpc, report, args, posts, post_idx, lang_idx, total_translated,
                   total_failed, handed, shown, output, exit_code>>
    /\ UNCHANGED <<retryVars, scanVars, urlVars>>

-----------------------------------------------------------------------------
(* Specifications.                                                         *)

\* One translate_post task.
Init == InitRetry /\ IdleScan /\ IdleUrl /\ IdleBatch
Next ==
    \/ ReadPost
    \/ NextAttempt
    \/ TranslateFrontMatter
    \/ TranslateBody
    \/ Save
    \/ Verify
    \/ RetryDelay
Spec == Init /\ [][Next]_vars

\* One scan.
ScanInit == IdleRetry /\ InitScan /\ IdleUrl /\ IdleBatch
ScanNext ==
    \/ LoadInputs
    \/ ScanPost
    \/ FinishScan
    \/ ScanExit
ScanSpec == ScanInit /\ [][ScanNext]_vars

\* One run of the batch driver, then of the output processing.
BatchInit == IdleRetry /\ IdleScan /\ IdleUrl /\ InitBatch
BatchNext ==
    \/ LoadReport
    \/ DryRun
    \/ CreateClient
    \/ NextPost
    \/ TranslateTask
    \/ Summary
    \/ ProcessOutput
BatchSpec == BatchInit /\ [][BatchNext]_vars

\* Repeated URL rewrites.
UrlInit == IdleRetry /\ IdleScan /\ InitUrl /\ IdleBatch
UrlNext == ApplyUrl
UrlSpec == UrlInit /\ [][UrlNext]_vars

-----------------------------------------------------------------------------
(* Properties of translate_post (specification Spec).                      *)

Output == fs[OutFile(lang_code)]
Returned(r) == pc = "Done" /\ result = r

\* The task ended right after a verification of its last attempt.
EndedByVerification == pc = "Done" /\ attempt >= 1 /\ hist.verifiedAt = attempt

\* C1: when translate_post returns failure because the final attempt's
\* artifact was rejected by verification, no index.<lang>.md remains.
C1_NoArtifactAfterFinalRejection ==
    (Returned("False") /\ attempt = max_retries /\ EndedByVerification
        /\ ~hist.accepted)
    => ~Output.exists

\* C2: a task makes at most max_retries attempts: at most max_retries header
\* translations, body translations, saves and verifications, each at most
\* once per attempt, whatever fails.
C2_AtMostMaxRetries ==
    /\ attempt <= max_retries
    /\ calls.fm <= attempt
    /\ calls.body <= calls.fm
    /\ calls.save <= calls.body
    /\ calls.verify <= calls.save
    /\ calls.sleep <= attempt

C2_Witness ==
    /\ Returned("False")
    /\ max_retries >= 2
    /\ calls.body = max_retries
    /\ calls.save = max_retries - 1
    /\ calls.verify = 1

\* C3: when translate_post returns success the artifact exists, it is the
\* text the last attempt saved, and the verification of that same attempt
\* accepted it.
C3_SuccessMeansSavedAndVerified ==
    Returned("True") =>
        /\ Output.exists
        /\ attempt >= 1
        /\ hist.savedAt = attempt
        /\ hist.verifiedAt = attempt
        /\ hist.accepted
        /\ Output = hist.written
        /\ Output = full_content(translated_front_matter, translated_content)
        /\ verify_translation(fs, lang_code, original_content)

C3_Witness == Returned("True") /\ attempt >= 2 /\ calls.save >= 2

SourceUnusable ==
    \/ FmFalsy(front_matter)
    \/ ContentFalsy(fs["index.md"])
    \/ FmFalsy(parse_front_matter(fs["index.md"]).fm)

C10_StartFailureIsImmediate ==
    (pc # "Start" /\ SourceUnusable) =>
        /\ Returned("False")
        /\ attempt = 0
        /\ calls = NoCalls
        /\ fs = hist.start

C10_Witness ==
    /\ Returned("False")
    /\ max_retries >= 1
    /\ fs["index.md"].exists
    /\ ~ContentFalsy(fs["index.md"])
    /\ FmFalsy(parse_front_matter(fs["index.md"]).fm)

-----------------------------------------------------------------------------
(* Properties of the scan (specification ScanSpec).                        *)

\* The posts the loop has dealt with, and the one it was dealing with when
\* an exception ended the scan.
Processed == 1..(idx - 1)
Handled == Processed \cup (IF spc = "Crashed" THEN {idx} ELSE {})

\* The posts the filter chain excludes.
Excluded(i) == should_skip_post(blog_posts[i], filters).skip

HasVariant(post, lang) == VariantName(lang) \in post.files

\* The expected languages without a variant file, in expected order.
WantMissing(post) ==
    SelectSeq(expected_langs, LAMBDA lang : ~HasVariant(post, lang))

\* C4: for every scanned, non-excluded post the missing languages reported
\* are exactly the expected languages without an index.<lang>.md, in expected
\* order, and a post with none missing has no entry.
C4_MissingIsExpectedMinusFound ==
    /\ \A i \in Processed :
        ~Excluded(i) =>
            /\ (i \in DOMAIN missing_translations) <=> (WantMissing(blog_posts[i]) # <<>>)
            /\ i \in DOMAIN missing_translations
                 => missing_translations[i] = WantMissing(blog_posts[i])
    /\ \A i \in DOMAIN missing_translations : missing_translations[i] # <<>>

C4_Witness ==
    /\ spc = "Done"
    /\ expected_langs = <<"ar", "de">>
    /\ \E i, j \in Processed :
        /\ blog_posts[i].files = {IndexMd}
        /\ i \in DOMAIN missing_translations
        /\ missing_translations[i] = <<"ar", "de">>
        /\ ~Excluded(j)
        /\ j \notin DOMAIN missing_translations

ExcludedPosts == {i \in 1..Len(blog_posts) : Excluded(i)}
ExcludedUnder(name) ==
    {i \in ExcludedPosts : should_skip_post(blog_posts[i], filters).name = name}

\* C5: after a scan, total_posts_scanned is the number of directories found
\* minus the sum of the per-filter counts; every excluded post is counted
\* once, under the one filter name that excluded it, and has no entry.
C5_TotalsAndCounts ==
    spc = "Done" =>
        /\ total_posts = Len(blog_posts) - filtered_count(filter_counts)
        /\ total_posts = Len(blog_posts) - Cardinality(ExcludedPosts)
        /\ \A name \in DOMAIN filter_counts :
               filter_counts[name] = Cardinality(ExcludedUnder(name))
        /\ \A i \in ExcludedPosts :
            /\ should_skip_post(blog_posts[i], filters).name \in DOMAIN filter_counts
            /\ i \notin DOMAIN missing_translations

C5_Witness ==
    /\ spc = "Done"
    /\ "archived" \in DOMAIN filter_counts
    /\ filter_counts["archived"] = 1
    /\ total_posts = 1
    /\ \E i \in Processed : "zArchive" \in blog_posts[i].fm.tags /\ Excluded(i)

\* An enabled filter that matches the header.
Matches(f, fm) == should_skip(f, fm) = "True"

\* The index of the first enabled matching filter of the list, 0 if none.
FirstMatch(fm, fl) ==
    IF \E k \in 1..Len(fl) : Matches(fl[k], fm)
    THEN CHOOSE k \in 1..Len(fl) :
            /\ Matches(fl[k], fm)
            /\ \A j \in 1..(k - 1) : ~Matches(fl[j], fm)
    ELSE 0

\* The orders of a filter list.
Orders(fl) ==
    {[i \in 1..Len(fl) |-> fl[p[i]]] :
        p \in {q \in [1..Len(fl) -> 1..Len(fl)] :
                 \A i, j \in 1..Len(fl) : i # j => q[i] # q[j]}}

\* C6: should_skip_post reports the first enabled matching filter in
\* configured order and evaluates none after it, never a disabled one, and
\* whether the post is skipped is the same for every order of the filters.
C6_FirstMatchAndOrderIndependence ==
    \A i \in Handled :
        LET fm == blog_posts[i].fm
            r == should_skip_post(blog_posts[i], filters)
            k == FirstMatch(fm, filters)
        IN  /\ k > 0 => (r.skip /\ r.name = filters[k].name /\ r.evaluated = k)
            /\ k = 0 => ~r.skip
            /\ r.skip => filters[r.evaluated].enabled
            /\ \A fl \in Orders(filters) :
                   should_skip_post(blog_posts[i], fl).skip = r.skip

\* The date is a string in the fixed format.
DateParses(d) == d.kind = "str"

OutOfRange(f, d) ==
    \/ f.min_year # NoYear /\ d.year < f.min_year
    \/ f.max_year # NoYear /\ d.year > f.max_year

\* The filters should_skip_post evaluated for post i.
Evaluated(i) == 1..should_skip_post(blog_posts[i], filters).evaluated

\* C7: an enabled date_range filter skips a post exactly when its date
\* parses and the year is out of range; a date that does not parse (a
\* malformed string, no date, a value that is no string) is not skipped and
\* does not end the scan.
C7_DateRangeFailOpen ==
    /\ spc # "Crashed"
    /\ \A i \in Handled : \A k \in Evaluated(i) :
        (filters[k].name = "date_range" /\ filters[k].enabled
            /\ ~blog_posts[i].fm.none)
        => should_skip(filters[k], blog_posts[i].fm) =
             (IF DateParses(blog_posts[i].fm.date)
                    /\ OutOfRange(filters[k], blog_posts[i].fm.date)
              THEN "True" ELSE "False")

-----------------------------------------------------------------------------
(* Properties of update_url_for_language (specification UrlSpec).          *)

\* C8: the canonical language leaves the URL unchanged; any other code is
\* prefixed as a path segment once; a second call with the same code on the
\* result of the first changes nothing.
C8_PrefixOnceAndIdempotent ==
    \A k \in 1..Len(url_trace) :
        LET e == url_trace[k]
        IN  /\ e.lang = "en" => e.res = e.arg
            /\ e.lang # "en" =>
                /\ SubSeq(e.res, 1, 3) = <<"/", e.lang, "/">>
                /\ SubSeq(e.res, 4, Len(e.res)) = LStripSlash(e.arg)
            /\ (k > 1 /\ url_trace[k - 1].lang = e.lang) => e.res = url_trace[k - 1].res

-----------------------------------------------------------------------------
(* The exit status of the scanner process (specification ScanSpec).        *)

\* Post i was scanned and lacks a variant for an expected language.
HasGap(i) ==
    /\ i \in Processed
    /\ ~Excluded(i)
    /\ WantMissing(blog_posts[i]) # <<>>

ScanExited == scan_exit_code # NotExited

\* C11 as stated: the scanner process exits with a non-zero status if and
\* only if at least one scanned post has a coverage gap.
C11_NonZeroIffGap ==
    ScanExited =>
        (scan_exit_code # 0 <=> \E i \in 1..Len(blog_posts) : HasGap(i))

\* C11, amended: the scanner process exits with status zero if and only if
\* the scan ran to its end and no scanned post has a coverage gap; it exits
\* non-zero when a scanned post has a gap, and also when the run ended before
\* the end of the scan (configuration or content directory not loadable, or
\* an exception that left the scan).
C11_ZeroIffCompleteScanWithoutGap ==
    ScanExited =>
        /\ scan_exit_code \in {0, 1}
        /\ scan_exit_code = 0 <=>
               (spc = "Done" /\ \A i \in 1..Len(blog_posts) : ~HasGap(i))
        /\ spc = "Done" =>
               (scan_exit_code = 1 <=> \E i \in 1..Len(blog_posts) : HasGap(i))

\* A finished scan of two posts, one complete and one with a gap, exits 1.
C11_Witness ==
    /\ spc = "Done"
    /\ scan_exit_code = 1
    /\ Len(blog_posts) = 2
    /\ \E i, j \in 1..2 : HasGap(i) /\ ~Excluded(j) /\ ~HasGap(j)

-----------------------------------------------------------------------------
(* Properties of the batch driver (specification BatchSpec).               *)

DriverExited == exit_code # NotExited

\* A task handed to translate_post came back failed, that is, after its
\* last attempt.
SomeTaskFailed == \E k \in 1..Len(handed) : ~handed[k].success

\* C12 as stated: the batch translation process exits non-zero only if at
\* least one task failed outright after exhausting its retries.
C12_NonZeroOnlyIfTaskFailed ==
    (DriverExited /\ exit_code # 0) => SomeTaskFailed

\* C12, amended: the batch translation process exits non-zero only when it
\* ends before any task is attempted, because the report cannot be loaded,
\* no report entry matches --post, or the client cannot be created; once a
\* task has been attempted the process ends with status zero, whether or not
\* tasks failed.
C12_NonZeroOnlyBeforeAnyTask ==
    DriverExited =>
        /\ exit_code \in {0, 1}
        /\ exit_code = 1 <=> mpc \in {"ReportError", "NoMatch", "ClientError"}
        /\ exit_code = 1 => handed = <<>> /\ total_failed = 0
        /\ handed # <<>> => exit_code = 0

\* Two posts were selected and the client could not be created: status 1,
\* no task attempted.
C12_Witness ==
    /\ mpc = "ClientError"
    /\ exit_code = 1
    /\ Len(posts) = 2
    /\ handed = <<>>


\* The report entries --post matches, by index; the entries that are also
\* among the first --limit of those.
Matching == {i \in 1..Len(report) : IsSubstring(args.post, report[i].path)}
Chosen ==
    {i \in Matching :
        args.limit = 0 \/ Cardinality({j \in Matching : j <= i}) <= args.limit}

\* The (path, language) tasks of report entry i that --lang selects.
TasksOf(i) ==
    LET wanted == SelectSeq(report[i].missing_languages,
                            LAMBDA l : args.lang = None \/ l = args.lang)
    IN  [k \in 1..Len(wanted) |-> [path |-> report[i].path, lang |-> wanted[k]]]

\* The selected tasks of the entries from i on, in report order.
RECURSIVE TasksFrom(_)
TasksFrom(i) ==
    IF i > Len(report) THEN <<>>
    ELSE (IF i \in Chosen THEN TasksOf(i) ELSE <<>>) \o TasksFrom(i + 1)

SelectedTasks == TasksFrom(1)

\* The tasks handed to translate_post so far, in order, without results.
HandedTasks == [k \in 1..Len(handed) |-> [path |-> handed[k].path, lang |-> handed[k].lang]]

IsPrefix(s, t) == Len(s) <= Len(t) /\ SubSeq(t, 1, Len(s)) = s

CountOf(success) == Cardinality({k \in 1..Len(handed) : handed[k].success = success})

\* C13: in a batch run the tasks handed to translate_post are, at every
\* moment, the first of the selected tasks in report order, each once; when
\* the run ends all selected tasks have been handed over, also after
\* failures, and the two counters are the numbers of succeeded and failed
\* tasks, so their sum is the number of selected tasks.
C13_EveryTaskOnceInOrder ==
    /\ mpc \in {"Loop", "Finished"} =>
        /\ IsPrefix(HandedTasks, SelectedTasks)
        /\ \A j, k \in 1..Len(handed) : j # k => HandedTasks[j] # HandedTasks[k]
        /\ total_translated = CountOf(TRUE)
        /\ total_failed = CountOf(FALSE)
    /\ mpc = "Finished" =>
        /\ HandedTasks = SelectedTasks
        /\ total_translated + total_failed = Len(SelectedTasks)

\* A finished run of four tasks whose first task failed and whose last
\* task succeeded.
C13_Witness ==
    /\ mpc = "Finished"
    /\ Len(handed) = 4
    /\ ~handed[1].success
    /\ handed[4].success
    /\ total_failed >= 2


\* The task report lists language l under path p.
Listed(p, l) == p \in DOMAIN posts_dict /\ InList(l, posts_dict[p].languages)

\* The (p, l) task ended in success, in failure.
TaskSucceeded(p, l) ==
    \E k \in 1..Len(handed) : handed[k] = [path |-> p, lang |-> l, success |-> TRUE]
TaskFailed(p, l) ==
    \E k \in 1..Len(handed) : handed[k] = [path |-> p, lang |-> l, success |-> FALSE]

\* C15: the translation task report, extracted from the output of a driver
\* run, lists language l under path p if and only if the (p, l) task ended
\* in success, and lists each pair at most once.
C15_ListedIffSucceeded ==
    ppc = "Done" =>
        \A p \in ReportPaths : \A l \in Langs :
            /\ Listed(p, l) <=> TaskSucceeded(p, l)
            /\ p \in DOMAIN posts_dict =>
                   Cardinality({k \in 1..Len(posts_dict[p].languages) :
                                    posts_dict[p].languages[k] = l}) <= 1

\* The tasks the dry run listed, in order.
RECURSIVE ShownFrom(_)
ShownFrom(i) ==
    IF i > Len(shown) THEN <<>>
    ELSE [k \in 1..Len(shown[i].langs) |->
             [path |-> shown[i].path, lang |-> shown[i].langs[k]]]
         \o ShownFrom(i + 1)

ShownTasks == ShownFrom(1)

\* C16: the (post, language) pairs a dry run lists are exactly the tasks a
\* real run with the same report and arguments attempts (the selected tasks,
\* by C13), and the dry run attempts no task.
C16_DryRunShowsRealTasks ==
    mpc = "DryRunDone" =>
        /\ ShownTasks = SelectedTasks
        /\ handed = <<>>
        /\ total_translated = 0 /\ total_failed = 0

-----------------------------------------------------------------------------
(* Posts without a header in the scan (specification ScanSpec).            *)

\* The posts whose index.md has no header that parses.
WithoutHeader == {i \in 1..Len(blog_posts) : blog_posts[i].fm.none}

\* The scan went past every post and returned.
ScanWentOn == spc = "Done" => idx = Len(blog_posts) + 1

\* C14 as stated: for a post whose index.md has a missing or unparseable
\* header, the scan goes on with the other posts and the post does not
\* appear among the report entries.
C14_NoEntryWithoutHeader ==
    /\ ScanWentOn
    /\ \A i \in WithoutHeader \cap Handled : i \notin DOMAIN missing_translations

\* C14, amended: a post whose index.md has a missing or unparseable header
\* never ends the scan and is never excluded by a filter: it is scanned like
\* any other post, and it appears among the report entries exactly when an
\* expected language has no variant file, with those languages.
C14_WithoutHeaderStillScanned ==
    /\ ScanWentOn
    /\ \A i \in WithoutHeader \cap Handled :
        /\ i \in Processed
        /\ i \notin DOMAIN skipped_by
        /\ i \in DOMAIN missing_translations <=> WantMissing(blog_posts[i]) # <<>>
        /\ i \in DOMAIN missing_translations =>
               missing_translations[i] = WantMissing(blog_posts[i])

\* A finished scan under an enabled filter: the first post has no header and
\* has an entry, the second post was scanned after it.
C14_Witness ==
    /\ spc = "Done"
    /\ Len(blog_posts) = 2
    /\ \E k \in 1..Len(filters) : filters[k].enabled
    /\ 1 \in WithoutHeader
    /\ 1 \in DOMAIN missing_translations
    /\ 2 \notin WithoutHeader
    /\ 2 \in DOMAIN missing_translations \cup DOMAIN skipped_by

-----------------------------------------------------------------------------
(* Rejections, save failures and translation failures in translate_post    *)
(* (specification Spec).                                                   *)

OtherFilesSame == \A f \in Files \ {OutFile(lang_code)} : fs'[f] = fs[f]

\* The verification of this step rejects the file of an attempt that is not
\* the last.
RejectsNonFinal ==
    /\ pc = "Verifying"
    /\ ~verify_translation(fs, lang_code, original_content)
    /\ attempt < max_retries

\* C17: when verification rejects the file written by an attempt that is not
\* the last, the file is unlinked: it is gone when the unlink succeeds, and
\* a failing unlink leaves the directory as it is without ending the task.
\* Nothing touches the directory between the rejection and the next
\* attempt's translation, and the next attempt does begin.
C17_RejectedArtifactDeletedThenRetry ==
    [][ /\ RejectsNonFinal =>
            /\ pc' = "RetryDelay"
            /\ result' = "pending"
            /\ calls'.unlink = calls.unlink + 1
            /\ hist'.unlink \in {"ok", "failed"}
            /\ hist'.unlink = "ok" => ~fs'[OutFile(lang_code)].exists
            /\ hist'.unlink = "failed" => fs' = fs
            /\ OtherFilesSame
        /\ pc = "RetryDelay" =>
            /\ attempt < max_retries
            /\ pc' = "Loop"
            /\ fs' = fs
        /\ (pc = "Loop" /\ attempt >= 1) =>
            /\ pc' = "Translating"
            /\ attempt' = attempt + 1
            /\ fs' = fs
        /\ (pc' = "Translating" /\ hist.verifiedAt = attempt /\ hist.unlink = "ok") =>
            ~fs'[OutFile(lang_code)].exists
      ]_vars

\* The second attempt has begun after the first attempt's file was rejected
\* and deleted.
C17_Witness ==
    /\ pc = "Translating"
    /\ attempt = 2
    /\ hist.savedAt = 1
    /\ hist.verifiedAt = 1
    /\ ~hist.accepted
    /\ hist.unlink = "ok"
    /\ ~Output.exists


\* The save of this step fails.
SaveFails == pc = "Saving" /\ hist'.savedAt # attempt

\* C18: a save failure on an attempt that is not the last leads to the delay
\* and a new attempt, and a save failure on the last attempt to failure;
\* every save is reached from the body translation of its own attempt, the
\* header and the body having been translated once per attempt so far, so no
\* save is made with the translation of an attempt before.
C18_SaveFailureRetranslates ==
    [][ /\ SaveFails =>
            IF attempt < max_retries
            THEN pc' = "RetryDelay" /\ result' = "pending" /\ attempt' = attempt
            ELSE pc' = "Done" /\ result' = "False"
        /\ pc' = "Saving" =>
            /\ pc = "TranslatingBody"
            /\ attempt' = attempt
            /\ calls'.fm = attempt
            /\ calls'.body = attempt
            /\ calls'.save < attempt
        /\ pc = "Saving" => calls'.save = calls.save + 1 /\ calls'.save <= attempt
      ]_vars

\* The second attempt is about to save after the first attempt's save
\* failed: header and body have been translated twice.
C18_Witness ==
    /\ pc = "Saving"
    /\ attempt = 2
    /\ calls.save = 1
    /\ hist.savedAt = 0
    /\ calls.fm = 2
    /\ calls.body = 2


\* The header of the original document, as parsed when the task began.
OriginalHeader == parse_front_matter(original_content).fm

\* The header the translation gives for the answers, field by field: a field
\* or a cover text whose translation failed (None or empty) has the value of
\* the original document.
KeepsFailedFields(tfm, answers) ==
    /\ \A f \in Sent(OriginalHeader) :
           answers[f] \in {"fail", "empty"} => tfm.text[f] = OriginalHeader.text[f]
    /\ \A f \in CoverSent(OriginalHeader) :
           answers[f] \in {"fail", "empty"}
               => tfm.cover.text[f] = OriginalHeader.cover.text[f]

\* C19: the header translation step goes on to the body translation
\* whatever the answers for the header fields are (it ends the attempt only
\* when the URL rewrite raises); a field whose translation failed keeps the
\* original's value in the translated header, so no field of the translated
\* header is lost. The body translation step ends the attempt exactly when
\* the answer is None or empty, and then without a save, a verification or
\* a change of the directory.
C19_OnlyBodyFailureEndsAttempt ==
    [][ /\ pc = "Translating" =>
            /\ ~UrlRaises(front_matter, lang_code) =>
                /\ pc' = "TranslatingBody"
                /\ result' = "pending"
                /\ ~translated_front_matter'.none
                /\ \A f \in TextFields :
                       /\ Truthy(front_matter.text[f]) =>
                              Truthy(translated_front_matter'.text[f])
                       /\ ~Truthy(front_matter.text[f]) =>
                              translated_front_matter'.text[f] = front_matter.text[f]
            /\ \A answers \in [Asked(front_matter) -> Answers] :
                   KeepsFailedFields(
                       translate_front_matter(front_matter, lang_code, answers),
                       answers)
        /\ pc = "TranslatingBody" =>
            /\ BodyFalsy(translated_content') <=> pc' # "Saving"
            /\ BodyFalsy(translated_content') =>
                /\ pc' = (IF attempt < max_retries THEN "RetryDelay" ELSE "Done")
                /\ result' = (IF attempt < max_retries THEN "pending" ELSE "False")
                /\ fs' = fs
                /\ calls'.save = calls.save
                /\ calls'.verify = calls.verify
                /\ hist' = hist
      ]_vars

-----------------------------------------------------------------------------
(* The verdict of verify_translation (specification Spec).                 *)

\* The structural checks of lines 234-256 on a file.
PassesStructure(file) ==
    /\ file.exists
    /\ ContentLen(file) >= min_content_length
    /\ file.starts
    /\ ~FmFalsy(parse_front_matter(file).fm)
    /\ parse_front_matter(file).body.len >= min_body_length

\* An original is supplied for the comparison.
OriginalSupplied == ~ContentFalsy(original_content)

\* The header, the headings of a file are detected as translated against
\* the original.
HeaderDetected(file) ==
    front_matter_translated(parse_front_matter(file).fm,
                            parse_front_matter(original_content).fm)
HeadingsDetected(file) ==
    headers_translated(parse_front_matter(file).body.headers,
                       parse_front_matter(original_content).body.headers)

\* C20: for a file that passes the structural checks, with an original
\* supplied, verify_translation accepts whenever the header or the headings
\* are detected as translated: the verification about to run accepts, and
\* the last verification of such a file, the one just saved, has accepted,
\* which ends the task in success.
C20_AcceptsWhenAnyPartTranslated ==
    /\ (pc = "Verifying" /\ PassesStructure(Output) /\ OriginalSupplied
            /\ (HeaderDetected(Output) \/ HeadingsDetected(Output)))
        => verify_translation(fs, lang_code, original_content)
    /\ (hist.verifiedAt >= 1 /\ hist.verifiedAt = hist.savedAt
            /\ PassesStructure(hist.written) /\ OriginalSupplied
            /\ (HeaderDetected(hist.written) \/ HeadingsDetected(hist.written)))
        => /\ hist.accepted
           /\ hist.verifiedAt = attempt
           /\ Returned("True")

\* A task that succeeded on a file whose header is detected as translated
\* and whose headings are not, the original having headings.
C20_Witness ==
    /\ Returned("True")
    /\ hist.accepted
    /\ hist.verifiedAt = attempt
    /\ PassesStructure(Output)
    /\ OriginalSupplied
    /\ HeaderDetected(Output)
    /\ ~HeadingsDetected(Output)
    /\ parse_front_matter(original_content).body.headers # <<>>

-----------------------------------------------------------------------------
(* The rejecting rule of verify_translation (specification Spec).          *)

\* The original has a heading, and none of the compared headings of the
\* file is detected as translated.
NoHeadingDetected(file) ==
    /\ parse_front_matter(original_content).body.headers # <<>>
    /\ ~HeadingsDetected(file)

\* C21 as stated: verify_translation rejects whenever the original has at
\* least one heading and none of the compared headings was detected as
\* translated.
C21_RejectsWhenNoHeadingTranslated ==
    /\ (pc = "Verifying" /\ NoHeadingDetected(Output))
        => ~verify_translation(fs, lang_code, original_content)
    /\ (hist.verifiedAt >= 1 /\ hist.verifiedAt = hist.savedAt
            /\ NoHeadingDetected(hist.written))
        => ~hist.accepted

\* C21, amended: verify_translation rejects whenever the original has at
\* least one heading, none of the compared headings was detected as
\* translated and the header was not detected as translated either; with
\* the header detected as translated and the file structurally valid it
\* accepts, the headings notwithstanding.
C21_RejectsWhenNothingTranslated ==
    /\ (pc = "Verifying" /\ NoHeadingDetected(Output))
        => (verify_translation(fs, lang_code, original_content)
              <=> (PassesStructure(Output) /\ HeaderDetected(Output)))
    /\ (hist.verifiedAt >= 1 /\ hist.verifiedAt = hist.savedAt
            /\ NoHeadingDetected(hist.written))
        => (hist.accepted
              <=> (PassesStructure(hist.written) /\ HeaderDetected(hist.written)))

\* A structurally valid file was just rejected: the original has headings,
\* the file's headings and header fields are the original's.
C21_Witness ==
    /\ hist.verifiedAt = attempt
    /\ hist.verifiedAt = hist.savedAt
    /\ ~hist.accepted
    /\ PassesStructure(hist.written)
    /\ NoHeadingDetected(hist.written)
    /\ ~HeaderDetected(hist.written)
    /\ hist.written.body.headers = parse_front_matter(original_content).body.headers

-----------------------------------------------------------------------------
(* The lenient rule of verify_translation (specification Spec).            *)

\* The original has no heading and no checked header field of the file is
\* detected as translated.
NothingToCompare(file) ==
    /\ OriginalSupplied
    /\ parse_front_matter(original_content).body.headers = <<>>
    /\ ~HeaderDetected(file)

\* The file carries the original's text: every text field of the header and
\* the body are the original's.
TextUnchanged(file) ==
    /\ parse_front_matter(file).fm.text = parse_front_matter(original_content).fm.text
    /\ parse_front_matter(file).body = parse_front_matter(original_content).body

\* C22: for a structurally valid file whose original has no heading and
\* whose checked header fields are unchanged, verify_translation accepts and
\* prints the quality warning; the last verification of such a file has
\* accepted and ended the task in success, and when the first attempt saved
\* the original's text unchanged, the task succeeded on that first attempt.
C22_LenientAccept ==
    /\ (pc = "Verifying" /\ PassesStructure(Output) /\ NothingToCompare(Output))
        => /\ verify_translation(fs, lang_code, original_content)
           /\ verify_translation_warns(fs, lang_code, original_content)
    /\ (hist.verifiedAt >= 1 /\ hist.verifiedAt = hist.savedAt
            /\ PassesStructure(hist.written) /\ NothingToCompare(hist.written))
        => /\ hist.accepted
           /\ hist.verifiedAt = attempt
           /\ Returned("True")
    /\ (hist.verifiedAt = 1 /\ hist.savedAt = 1
            /\ PassesStructure(hist.written) /\ NothingToCompare(hist.written)
            /\ TextUnchanged(hist.written))
        => /\ attempt = 1
           /\ Returned("True")
           /\ calls.sleep = 0

\* A task that succeeded on its first attempt with the original's text
\* saved unchanged, the original having no heading.
C22_Witness ==
    /\ Returned("True")
    /\ attempt = 1
    /\ hist.verifiedAt = 1
    /\ hist.savedAt = 1
    /\ hist.accepted
    /\ PassesStructure(Output)
    /\ NothingToCompare(Output)
    /\ TextUnchanged(Output)
    /\ Truthy(parse_front_matter(original_content).fm.text["title"])

-----------------------------------------------------------------------------
(* The structural checks of verify_translation (specification Spec).       *)

\* Output files that fail one structural check each, all of them different
\* from the originals in the title or in the headings: no file, no header
\* delimiter, a header block that is not YAML, an empty header mapping, a
\* text shorter than 100 characters, a body shorter than 50.
StructuralCases ==
    { NoFile,
      RawFile(Body(200, <<"Einleitung", "Verwendung">>)),
      BadYamlFile(Body(200, <<"Einleitung", "Verwendung">>)),
      DocFile(FM(Absent, Absent, Absent, Absent, NoUrl),
              Body(200, <<"Einleitung", "Verwendung">>)),
      DocFile(FM("Titel", Absent, Absent, Absent, NoUrl), Body(60, <<"Einleitung">>)),
      DocFile(FM("Titel", Absent, Absent, "Zusammenfassung",
                 StrUrl(<<"/", "de", "/", "post", "/">>)),
              Body(30, <<"Einleitung", "Verwendung">>)) }

\* C23: a file that fails a structural check (it is missing, its trimmed
\* length is below 100, it does not begin with the header delimiter, its
\* header does not parse to a non-empty mapping, or its body is shorter than
\* 50) is rejected by verify_translation, whatever the differences from the
\* original: the verification about to run rejects, the last verification
\* of such a file has rejected, and each structural case put in the place
\* of the output file is rejected against the original of the task.
C23_StructuralChecksGate ==
    /\ (pc = "Verifying" /\ ~PassesStructure(Output))
        => ~verify_translation(fs, lang_code, original_content)
    /\ (hist.verifiedAt >= 1 /\ hist.verifiedAt = hist.savedAt
            /\ ~PassesStructure(hist.written))
        => ~hist.accepted
    /\ pc = "Start"
        => \A v \in StructuralCases :
               /\ ~PassesStructure(v)
               /\ ~verify_translation([fs EXCEPT ![OutFile(lang_code)] = v],
                                      lang_code, fs["index.md"])

\* A file whose title is detected as translated was just rejected for its
\* structure.
C23_Witness ==
    /\ hist.verifiedAt = attempt
    /\ hist.verifiedAt = hist.savedAt
    /\ ~hist.accepted
    /\ ~PassesStructure(hist.written)
    /\ OriginalSupplied
    /\ HeaderDetected(hist.written)

-----------------------------------------------------------------------------
(* Filters on a post without header (specification ScanSpec).              *)

WithHeaderKept ==
    {i \in 1..Len(blog_posts) : ~blog_posts[i].fm.none /\ i \notin DOMAIN skipped_by}

\* C24: for a post whose header could not be parsed no filter triggers,
\* whatever the configured filters: each filter answers False, the chain
\* neither excludes the post nor raises; the post is never recorded as
\* skipped, it counts in total_posts_scanned, and its entry is the one of
\* any other scanned post with the same files.
C24_NoFilterTriggersWithoutHeader ==
    /\ \A i \in WithoutHeader :
        /\ \A k \in 1..Len(filters) :
               should_skip(filters[k], blog_posts[i].fm) = "False"
        /\ ~should_skip_post(blog_posts[i], filters).skip
        /\ ~should_skip_post(blog_posts[i], filters).raised
        /\ should_skip_post(blog_posts[i], filters).evaluated = Len(filters)
    /\ \A i \in WithoutHeader \cap Handled :
        /\ i \in Processed
        /\ i \notin DOMAIN skipped_by
        /\ \A j \in Processed :
               (~Excluded(j) /\ blog_posts[j].files = blog_posts[i].files)
                   => /\ (i \in DOMAIN missing_translations
                            <=> j \in DOMAIN missing_translations)
                      /\ i \in DOMAIN missing_translations
                            => missing_translations[i] = missing_translations[j]
    /\ spc = "Done" =>
           total_posts = Cardinality(WithoutHeader) + Cardinality(WithHeaderKept)

\* A finished scan under two enabled filters: the first post has no header
\* and the same files as the second, which has a header and was scanned;
\* both have the same entry, and the total counts both.
C24_Witness ==
    /\ spc = "Done"
    /\ Len(blog_posts) = 2
    /\ Len(filters) = 2
    /\ \A k \in 1..Len(filters) : filters[k].enabled
    /\ 1 \in WithoutHeader
    /\ 2 \notin WithoutHeader
    /\ blog_posts[1].files = blog_posts[2].files
    /\ 1 \in DOMAIN missing_translations
    /\ 2 \in DOMAIN missing_translations
    /\ missing_translations[1] = missing_translations[2]
    /\ total_posts = 2

-----------------------------------------------------------------------------
(* The files a task touches (specification Spec).                          *)

OwnFile == OutFile(lang_code)

\* C25: throughout a task every file but the task's own index.<lang>.md is
\* what it was when the task began (index.md, the variant of the other
\* language, the variants of another post), whatever the attempts,
\* rejections and cleanups; the own file changes only once a save was
\* attempted.
C25_OnlyOwnOutputPath ==
    /\ \A f \in Files \ {OwnFile} : fs[f] = hist.start[f]
    /\ fs[OwnFile] # hist.start[OwnFile] => calls.save >= 1

\* A task ended after a rejected attempt whose file was deleted and a later
\* save: its own file changed, and the other language's variant and another
\* post's variant of the same language exist.
C25_Witness ==
    /\ pc = "Done"
    /\ attempt >= 2
    /\ calls.unlink >= 1
    /\ calls.save >= 2
    /\ hist.start[OwnFile].exists
    /\ fs[OwnFile] # hist.start[OwnFile]
    /\ \A f \in Files \ {OwnFile, "index.md"} : fs[f].exists

-----------------------------------------------------------------------------
(* The source header across attempts (specification Spec).                 *)

\* C26: the header translate_front_matter is given is never modified by it,
\* the cover's alt and caption included: at every attempt the header about
\* to be translated is the header parsed from the original document, so the
\* texts sent to translation are those of the first attempt.
C26_SourceHeaderInvariant ==
    pc \in {"Translating", "TranslatingBody", "Saving", "Verifying", "RetryDelay"}
        => front_matter = OriginalHeader

-----------------------------------------------------------------------------
(* The url of a saved file (specification Spec).                           *)

\* How many times the symbol c occurs in the path p.
RECURSIVE Occurrences(_, _)
Occurrences(c, p) ==
    IF p = <<>> THEN 0
    ELSE (IF Head(p) = c THEN 1 ELSE 0) + Occurrences(c, Tail(p))

\* C27: in every file a save of the task wrote, whatever the attempt, the
\* url is the original document's url behind one /<lang>/ prefix: the path
\* is the prefix followed by the original path without its leading slashes,
\* the language code occurs once more than in the original, and a header
\* without url is saved without url. The url is not among the texts sent to
\* translation.
C27_UrlPrefixedOnce ==
    /\ "url" \notin Asked(front_matter)
    /\ hist.savedAt >= 1 =>
        LET saved == hist.written.fm.url
            orig == OriginalHeader.url
        IN  /\ saved.present = orig.present
            /\ orig.present =>
                /\ orig.str
                /\ saved.str
                /\ saved.path = <<"/", lang_code, "/">> \o LStripSlash(orig.path)
                /\ Occurrences(lang_code, saved.path)
                       = 1 + Occurrences(lang_code, orig.path)

\* A second or later attempt saved a file whose original has a url.
C27_Witness ==
    /\ hist.savedAt >= 2
    /\ calls.save >= 2
    /\ calls.fm >= 2
    /\ OriginalHeader.url.present
    /\ hist.written.fm.url.path = <<"/", lang_code, "/", "post", "/">>

-----------------------------------------------------------------------------
(* Exceptions inside an attempt (specification Spec).                      *)

\* How far a task is from its end: the attempts left, then the steps left
\* in the attempt.
StepsLeft ==
    CASE pc = "Start" -> 7
      [] pc = "Translating" -> 6
      [] pc = "TranslatingBody" -> 5
      [] pc = "Saving" -> 4
      [] pc = "Verifying" -> 3
      [] pc = "RetryDelay" -> 2
      [] pc = "Loop" -> 1
      [] pc = "Done" -> 0
Measure == 10 * (max_retries - attempt) + StepsLeft

\* C28: the exception of an attempt (the URL rewrite raising inside the
\* header translation) is handled inside translate_post: it ends the
\* attempt without a save or a verification, the task goes on to the delay
\* and to the next attempt while attempts remain, and returns False on the
\* last one. The task is over exactly when it has returned True or False,
\* it can always take a step until then, and every step brings it nearer to
\* its end, so it ends with a boolean.
C28_ExceptionsConsumeAttempt ==
    /\ [](/\ attempt <= max_retries
          /\ pc = "Done" <=> result \in {"True", "False"}
          /\ pc # "Done" => result = "pending" /\ ENABLED Next)
    /\ [][ /\ Measure' < Measure
           /\ (pc = "Translating" /\ UrlRaises(front_matter, lang_code)) =>
                /\ pc' = (IF attempt < max_retries THEN "RetryDelay" ELSE "Done")
                /\ result' = (IF attempt < max_retries THEN "pending" ELSE "False")
                /\ attempt' = attempt
                /\ fs' = fs
                /\ calls'.save = calls.save
                /\ calls'.verify = calls.verify
           /\ pc = "RetryDelay" => pc' = "Loop" /\ attempt' = attempt
           /\ (pc = "Loop" /\ attempt < max_retries) =>
                pc' = "Translating" /\ attempt' = attempt + 1
         ]_vars

\* A task of two attempts or more returned False after the URL rewrite
\* raised in each of them: as many header translations as attempts, no save.
C28_Witness ==
    /\ Returned("False")
    /\ UrlRaises(front_matter, lang_code)
    /\ attempt = max_retries
    /\ attempt >= 2
    /\ calls.fm = attempt
    /\ calls.sleep = attempt - 1
    /\ calls.save = 0

-----------------------------------------------------------------------------
(* The driver's exit status and the task outcomes (specification BatchSpec). *)

AllTasksFailed == \A k \in 1..Len(handed) : ~handed[k].success

\* C29: once the report is loaded, the client is created and a post is
\* selected, the exit status does not depend on the outcomes of the tasks:
\* the process does not exit while tasks are handed over, and it ends with
\* status 0 after the summary, with every task counted as translated or as
\* failed, be they all failed, all succeeded or mixed.
C29_ExitStatusIgnoresOutcomes ==
    /\ mpc = "Loop" => exit_code = NotExited /\ posts # <<>>
    /\ mpc = "Finished" =>
        /\ exit_code = 0
        /\ posts # <<>>
        /\ total_translated + total_failed = Len(handed)
        /\ total_failed = Cardinality({k \in 1..Len(handed) : ~handed[k].success})
    /\ handed # <<>> => mpc \in {"Loop", "Finished"}

\* A finished run of two tasks or more with retries, every task failed:
\* status 0.
C29_Witness ==
    /\ mpc = "Finished"
    /\ args.retries >= 1
    /\ Len(handed) >= 2
    /\ AllTasksFailed
    /\ total_failed = Len(handed)
    /\ exit_code = 0

-----------------------------------------------------------------------------
(* The urls of a report entry (specification ScanSpec).                    *)

ReportWritten == json_report.state = "written"

\* C30: in every entry of a generated report, urls has a language other
\* than 'en' only if that language's index.<lang>.md exists, so no language
\* of missing_languages is a key of urls; urls has 'en' exactly when url is
\* not null, and then with url's value.
C30_UrlsOnlyForExistingVariants ==
    ReportWritten =>
        /\ DOMAIN json_report.posts = DOMAIN missing_translations
        /\ \A i \in DOMAIN json_report.posts :
            LET entry == json_report.posts[i]
            IN  /\ \A lang \in DOMAIN entry.urls :
                       lang # "en" => VariantName(lang) \in blog_posts[i].files
                /\ \A k \in 1..Len(entry.missing_languages) :
                       entry.missing_languages[k] \notin DOMAIN entry.urls
                /\ "en" \in DOMAIN entry.urls <=> ~entry.url.null
                /\ "en" \in DOMAIN entry.urls => entry.urls["en"] = entry.url.full

\* A report with an entry whose url is not null, with the url of an existing
\* variant and a missing language, and an entry whose url is null.
C30_Witness ==
    /\ ReportWritten
    /\ \E i \in DOMAIN json_report.posts :
        LET entry == json_report.posts[i]
        IN  /\ DOMAIN entry.urls = {"en", "ar"}
            /\ entry.missing_languages # <<>>
            /\ entry.url.full = <<"https://blog", "/", "post", "/">>
    /\ \E i \in DOMAIN json_report.posts :
        /\ json_report.posts[i].url.null
        /\ "en" \notin DOMAIN json_report.posts[i].urls

=============================================================================
